---- MODULE Spec2Model ----
(***************************************************************************)
(* Model of the shopping planner's unit-price normaliser                   *)
(* (calculatePricePerUnit), of the product routes that persist its result, *)
(* and of the shopping-list aggregation of GET /api/shopping-lists/:id.    *)
(*                                                                         *)
(* Strings are sequences of one-character strings.  The two letters        *)
(* u-umlaut are written "u_uml" (small) and "U_UML" (capital).             *)
(* JavaScript numbers are records: a finite number is an exact fraction    *)
(* n/d in lowest terms, and NaN, Infinity and -Infinity are values of      *)
(* their own.  Binary floating-point representation error is not           *)
(* modelled.                                                               *)
(***************************************************************************)
EXTENDS Integers, Sequences, FiniteSets, TLC

VARIABLES
    size,          \* calculatePricePerUnit: the size argument
    price,         \* calculatePricePerUnit: the price argument
    result,        \* calculatePricePerUnit: the returned value
    called,        \* whether calculatePricePerUnit has returned
    products,      \* the products table: id -> row
    httpStatus,    \* the status of the last response of the product routes
    items,         \* the items of the shopping list, in the order they are loaded
    response,      \* the body of the response of GET /api/shopping-lists/:id
    responded,     \* whether GET /api/shopping-lists/:id has answered
    stored,        \* the shopping lists of the database: list id -> items
    locals,        \* the map and the running totals of the handler's last run
    seen,          \* the <<items, response>> pairs of the aggregations so far
    gets,          \* the number of GET /api/shopping-lists/:id requests so far
    request,       \* a PUT /api/products/:id request, and how it was answered
    db,            \* the tables of the database, with the owner of each row
    last,          \* the last request of a user and its answer
    requests       \* the number of requests of users so far

calcVars == <<size, price, result, called>>

productVars == <<products, httpStatus>>

aggVars == <<items, response, responded>>

againVars == <<stored, locals, seen, gets>>

ownerVars == <<db, last, requests>>

vars == <<calcVars, productVars, aggVars, againVars, request, ownerVars>>

\* the variables a call of calculatePricePerUnit leaves alone
outsideCalc == <<productVars, aggVars, againVars, request, ownerVars>>

\* the variables the product routes leave alone
outsideProducts == <<calcVars, aggVars, againVars, ownerVars>>

\* the variables one aggregation leaves alone
outsideAgg == <<calcVars, productVars, againVars, request, ownerVars>>

\* the variables the routes of the users' resources leave alone
outsideOwner == <<calcVars, productVars, aggVars, againVars, request>>

-----------------------------------------------------------------------------
(* Characters and strings *)

DigitChars == <<"0", "1", "2", "3", "4", "5", "6", "7", "8", "9">>

DigitValues == [c \in {DigitChars[i] : i \in 1..Len(DigitChars)} |->
                   (CHOOSE i \in 1..Len(DigitChars) : DigitChars[i] = c) - 1]

IsDigit(c) == c \in DOMAIN DigitValues

DigitVal(c) == DigitValues[c]

WhiteSpace == {" ", "\t", "\n"}

UpperChars ==
    <<"A", "B", "C", "D", "E", "F", "G", "H", "I", "J", "K", "L", "M",
      "N", "O", "P", "Q", "R", "S", "T", "U", "V", "W", "X", "Y", "Z", "U_UML">>

LowerChars ==
    <<"a", "b", "c", "d", "e", "f", "g", "h", "i", "j", "k", "l", "m",
      "n", "o", "p", "q", "r", "s", "t", "u", "v", "w", "x", "y", "z", "u_uml">>

LowerOfUpper == [c \in {UpperChars[i] : i \in 1..Len(UpperChars)} |->
                    LowerChars[CHOOSE i \in 1..Len(UpperChars) : UpperChars[i] = c]]

toLowerCaseChar(c) == IF c \in DOMAIN LowerOfUpper THEN LowerOfUpper[c] ELSE c

toLowerCase(s) == [i \in 1..Len(s) |-> toLowerCaseChar(s[i])]

RECURSIVE SkipWs(_, _)
SkipWs(s, i) ==
    IF i <= Len(s) /\ s[i] \in WhiteSpace THEN SkipWs(s, i + 1) ELSE i

RECURSIVE SkipWsBack(_, _)
SkipWsBack(s, i) ==
    IF i >= 1 /\ s[i] \in WhiteSpace THEN SkipWsBack(s, i - 1) ELSE i

trim(s) ==
    LET a == SkipWs(s, 1)
        b == SkipWsBack(s, Len(s))
    IN  IF a > b THEN <<>> ELSE SubSeq(s, a, b)

RECURSIVE DigitRun(_, _)
DigitRun(s, i) ==
    IF i <= Len(s) /\ IsDigit(s[i]) THEN DigitRun(s, i + 1) ELSE i

RECURSIVE DigitsValue(_, _, _)
DigitsValue(s, i, j) ==
    IF j <= i THEN 0 ELSE 10 * DigitsValue(s, i, j - 1) + DigitVal(s[j - 1])

-----------------------------------------------------------------------------
(* JavaScript numbers *)

Abs(x) == IF x < 0 THEN -x ELSE x

RECURSIVE GCD(_, _)
GCD(a, b) == IF b = 0 THEN a ELSE GCD(b, a % b)

RECURSIVE Pow10(_)
Pow10(e) == IF e <= 0 THEN 1 ELSE 10 * Pow10(e - 1)

Fin(n, d) ==
    LET g == GCD(Abs(n), d)
    IN  [k |-> "fin", n |-> n \div g, d |-> d \div g]

NaN == [k |-> "nan", n |-> 0, d |-> 1]

Infinity == [k |-> "inf", n |-> 1, d |-> 1]

NegInfinity == [k |-> "inf", n |-> -1, d |-> 1]

Null == [k |-> "null", n |-> 0, d |-> 1]

isNaN(x) == x.k = "nan"

IsFin(x) == x.k = "fin"

\* x <= 0 on numbers: false for NaN
LeqZero(x) == x.k \in {"fin", "inf"} /\ x.n <= 0

\* x > 0 on numbers: false for NaN
GtZero(x) == x.k \in {"fin", "inf"} /\ x.n > 0

\* a / b for b finite and not negative: a finite number divided by 0 is
\* Infinity, -Infinity or (0 / 0) NaN
NumDiv(a, b) ==
    IF a.k # "fin" THEN a
    ELSE IF b.n = 0
         THEN (IF a.n = 0 THEN NaN ELSE IF a.n < 0 THEN NegInfinity ELSE Infinity)
    ELSE Fin(a.n * b.d, a.d * b.n)

\* a / m for an integer m > 0
DivInt(a, m) == NumDiv(a, Fin(m, 1))

\* a + b
NumAdd(a, b) ==
    IF a.k = "fin" /\ b.k = "fin" THEN Fin(a.n * b.d + b.n * a.d, a.d * b.d)
    ELSE IF a.k = "nan" \/ b.k = "nan" THEN NaN
    ELSE IF a.k = "inf" /\ b.k = "inf" /\ a.n # b.n THEN NaN
    ELSE IF a.k = "inf" THEN a ELSE b

InfinityChars == <<"I", "n", "f", "i", "n", "i", "t", "y">>

\* parseFloat: leading white space, a sign, then Infinity or the longest
\* decimal literal; NaN when there is none
parseFloat(s) ==
    LET i0 == SkipWs(s, 1)
        neg == i0 <= Len(s) /\ s[i0] = "-"
        i1 == IF i0 <= Len(s) /\ s[i0] \in {"+", "-"} THEN i0 + 1 ELSE i0
        isInf == i1 + 7 <= Len(s) /\ SubSeq(s, i1, i1 + 7) = InfinityChars
        i2 == DigitRun(s, i1)
        hasDot == i2 <= Len(s) /\ s[i2] = "."
        i3 == IF hasDot THEN DigitRun(s, i2 + 1) ELSE i2
        nInt == i2 - i1
        nFrac == IF hasDot THEN i3 - (i2 + 1) ELSE 0
        mant == IF hasDot
                THEN DigitsValue(s, i1, i2) * Pow10(nFrac) + DigitsValue(s, i2 + 1, i3)
                ELSE DigitsValue(s, i1, i2)
        hasE == i3 <= Len(s) /\ s[i3] \in {"e", "E"}
        eNeg == hasE /\ i3 + 1 <= Len(s) /\ s[i3 + 1] = "-"
        i4 == IF hasE /\ i3 + 1 <= Len(s) /\ s[i3 + 1] \in {"+", "-"}
              THEN i3 + 2 ELSE i3 + 1
        i5 == IF hasE THEN DigitRun(s, i4) ELSE i4
        exp == IF hasE /\ i5 > i4 THEN DigitsValue(s, i4, i5) ELSE 0
        sgn == IF neg THEN -1 ELSE 1
    IN  IF isInf THEN (IF neg THEN NegInfinity ELSE Infinity)
        ELSE IF nInt = 0 /\ nFrac = 0 THEN NaN
        ELSE IF eNeg THEN Fin(sgn * mant, Pow10(nFrac) * Pow10(exp))
        ELSE Fin(sgn * mant * Pow10(exp), Pow10(nFrac))

RECURSIVE DigitsOf(_)
DigitsOf(m) ==
    IF m < 10 THEN <<DigitChars[m + 1]>>
    ELSE Append(DigitsOf(m \div 10), DigitChars[(m % 10) + 1])

\* for x >= 0: the integer n for which n / 100 - x is closest to zero, the
\* larger one when two are equally close
RoundCents(x) == (200 * x.n + x.d) \div (2 * x.d)

\* Number.prototype.toFixed(2)
toFixed2(x) ==
    IF x.k = "nan" THEN <<"N", "a", "N">>
    ELSE IF x.k = "inf"
         THEN (IF x.n < 0 THEN <<"-">> ELSE <<>>) \o InfinityChars
    ELSE LET neg == x.n < 0
             c == RoundCents([x EXCEPT !.n = Abs(x.n)])
             ds == DigitsOf(c)
             m == IF Len(ds) < 3
                  THEN [i \in 1..(3 - Len(ds)) |-> "0"] \o ds
                  ELSE ds
         IN  (IF neg THEN <<"-">> ELSE <<>>)
             \o SubSeq(m, 1, Len(m) - 2) \o <<".">> \o SubSeq(m, Len(m) - 1, Len(m))

-----------------------------------------------------------------------------
(* calculatePricePerUnit *)

\* the alternatives of the size pattern's unit group, in lower case
UnitAlternatives ==
    { <<"k", "g">>, <<"g">>, <<"m", "g">>, <<"l">>, <<"m", "l">>,
      <<"p", "i", "e", "c", "e">>, <<"p", "i", "e", "c", "e", "s">>,
      <<"p", "c">>, <<"p", "c", "s">>, <<"s", "t">>, <<"s", "t", "k">>,
      <<"s", "t", "u_uml", "c", "k">>, <<"x">>, <<"c", "o", "u", "n", "t">>,
      <<"u", "n", "i", "t">>, <<"u", "n", "i", "t", "s">> }

\* the units of the count branch
CountUnits ==
    { <<"p", "i", "e", "c", "e">>, <<"p", "i", "e", "c", "e", "s">>,
      <<"p", "c", "s">>, <<"p", "c">>, <<"s", "t">>, <<"s", "t", "k">>,
      <<"s", "t", "u_uml", "c", "k">>, <<"x">>, <<"c", "o", "u", "n", "t">>,
      <<"u", "n", "i", "t">>, <<"u", "n", "i", "t", "s">> }

NoMatch == [ok |-> FALSE, amount |-> <<>>, unit |-> <<>>]

\* a match that does not have to reach the end of the text: the unit is the
\* longest alternative the rest of the text starts with
sizeMatch_unanchored(t) ==
    LET i1 == DigitRun(t, 1)
        hasFrac == i1 <= Len(t) /\ t[i1] = "." /\ DigitRun(t, i1 + 1) > i1 + 1
        i2 == IF hasFrac THEN DigitRun(t, i1 + 1) ELSE i1
        i3 == SkipWs(t, i2)
        ends == {j \in i3..Len(t) : toLowerCase(SubSeq(t, i3, j)) \in UnitAlternatives}
    IN  IF i1 > 1 /\ ends # {}
        THEN [ok |-> TRUE, amount |-> SubSeq(t, 1, i2 - 1),
              unit |-> SubSeq(t, i3, CHOOSE j \in ends : \A l \in ends : l <= j)]
        ELSE NoMatch

\* t.match(/^(\d+(?:\.\d+)?)\s*(kg|g|...|units?)$/i)
sizeMatch(t) ==
    LET i1 == DigitRun(t, 1)
        hasFrac == i1 <= Len(t) /\ t[i1] = "." /\ DigitRun(t, i1 + 1) > i1 + 1
        i2 == IF hasFrac THEN DigitRun(t, i1 + 1) ELSE i1
        i3 == SkipWs(t, i2)
        u == SubSeq(t, i3, Len(t))
    IN  IF i1 > 1 /\ toLowerCase(u) \in UnitAlternatives
        THEN [ok |-> TRUE, amount |-> SubSeq(t, 1, i2 - 1), unit |-> u]
        ELSE NoMatch

\* !size || size.trim() === ''
sizeIsEmpty(sz) == sz.t # "string" \/ sz.s = <<>> \/ trim(sz.s) = <<>>

\* the conversion of the price argument to a number
priceNumOf(p) ==
    IF p.t = "string" THEN parseFloat(p.s)
    ELSE p.v

\* a validation that lets a price of zero through
priceInvalid_zeroAccepted(priceNum) ==
    isNaN(priceNum) \/ (priceNum.k \in {"fin", "inf"} /\ priceNum.n < 0)

\* isNaN(priceNum) || priceNum <= 0
priceInvalid(priceNum) == isNaN(priceNum) \/ LeqZero(priceNum)

\* a normalisation that divides milligrams by 1000, like grams
normalizedAmountOf_mgAsG(amount, unit) ==
    IF unit = <<"k", "g">> THEN amount
    ELSE IF unit = <<"g">> THEN DivInt(amount, 1000)
    ELSE IF unit = <<"m", "g">> THEN DivInt(amount, 1000)
    ELSE IF unit = <<"l">> THEN amount
    ELSE IF unit = <<"m", "l">> THEN DivInt(amount, 1000)
    ELSE IF unit \in CountUnits THEN amount
    ELSE Null

\* the amount in base units, Null for a unit of no branch
normalizedAmountOf(amount, unit) ==
    IF unit = <<"k", "g">> THEN amount
    ELSE IF unit = <<"g">> THEN DivInt(amount, 1000)
    ELSE IF unit = <<"m", "g">> THEN DivInt(amount, 1000000)
    ELSE IF unit = <<"l">> THEN amount
    ELSE IF unit = <<"m", "l">> THEN DivInt(amount, 1000)
    ELSE IF unit \in CountUnits THEN amount
    ELSE Null

\* a validation that lets an amount of zero through
amountInvalid_negativeOnly(normalizedAmount) ==
    normalizedAmount.k \in {"fin", "inf"} /\ normalizedAmount.n < 0

\* normalizedAmount <= 0
amountInvalid(normalizedAmount) == LeqZero(normalizedAmount)

\* a normaliser that takes a missing or blank size for one piece
calculatePricePerUnit_blankAsOnePiece(sz, p) ==
    LET priceNum == priceNumOf(p)
        match == sizeMatch(IF sizeIsEmpty(sz) THEN <<"1", "x">> ELSE trim(sz.s))
        amount == parseFloat(match.amount)
        unit == toLowerCase(match.unit)
        normalizedAmount == normalizedAmountOf(amount, unit)
        pricePerUnit == NumDiv(priceNum, normalizedAmount)
    IN  IF priceInvalid(priceNum) THEN Null
        ELSE IF ~match.ok THEN Null
        ELSE IF normalizedAmount = Null THEN Null
        ELSE IF amountInvalid(normalizedAmount) THEN Null
        ELSE parseFloat(toFixed2(pricePerUnit))

calculatePricePerUnit(sz, p) ==
    IF sizeIsEmpty(sz) THEN Null
    ELSE LET priceNum == priceNumOf(p)
             match == sizeMatch(trim(sz.s))
             amount == parseFloat(match.amount)
             unit == toLowerCase(match.unit)
             normalizedAmount == normalizedAmountOf(amount, unit)
             pricePerUnit == NumDiv(priceNum, normalizedAmount)
         IN  IF priceInvalid(priceNum) THEN Null
             ELSE IF ~match.ok THEN Null
             ELSE IF normalizedAmount = Null THEN Null
             ELSE IF amountInvalid(normalizedAmount) THEN Null
             ELSE parseFloat(toFixed2(pricePerUnit))

-----------------------------------------------------------------------------
(* Arguments of calculatePricePerUnit *)

MaxWs == 1

StrV(s) == [t |-> "string", s |-> s]

NullV == [t |-> "null", s |-> <<>>]

UndefinedV == [t |-> "undefined", s |-> <<>>]

NumberV(x) == [t |-> "number", v |-> x, s |-> <<>>]

DecimalV(x) == [t |-> "object", v |-> x, s |-> <<>>]

PriceStrV(s) == [t |-> "string", v |-> NaN, s |-> s]

\* a field absent from a request body
AbsentV == [t |-> "undefined", v |-> NaN, s |-> <<>>]

\* a numeric field that is null
NullNumV == [t |-> "null", v |-> NaN, s |-> <<>>]

toUpperCaseChar(c) ==
    IF \E i \in 1..Len(LowerChars) : LowerChars[i] = c
    THEN UpperChars[CHOOSE i \in 1..Len(LowerChars) : LowerChars[i] = c]
    ELSE c

\* a token in lower case, in upper case, capitalised, and with every
\* second letter a capital
CaseVariants(tok) ==
    { tok,
      [i \in 1..Len(tok) |-> toUpperCaseChar(tok[i])],
      [i \in 1..Len(tok) |-> IF i = 1 THEN toUpperCaseChar(tok[i]) ELSE tok[i]],
      [i \in 1..Len(tok) |-> IF i % 2 = 0 THEN toUpperCaseChar(tok[i]) ELSE tok[i]] }

\* amounts as written, each with its value n/d
Amounts ==
    { [txt |-> <<"1">>, n |-> 1, d |-> 1],
      [txt |-> <<"6">>, n |-> 6, d |-> 1],
      [txt |-> <<"5", "0", "0">>, n |-> 500, d |-> 1],
      [txt |-> <<"1", "0", "0", "0">>, n |-> 1000, d |-> 1],
      [txt |-> <<"1", ".", "5">>, n |-> 3, d |-> 2],
      [txt |-> <<"0", ".", "5">>, n |-> 1, d |-> 2],
      [txt |-> <<"0">>, n |-> 0, d |-> 1],
      [txt |-> <<"0", ".", "0">>, n |-> 0, d |-> 1] }

Spaces(n) == [i \in 1..n |-> " "]

\* <amount><white space><unit> for a unit token in some letter case
WellFormedSize(a, w, u) == StrV(a.txt \o Spaces(w) \o u)

WellFormedSizes ==
    { WellFormedSize(a, w, u) :
        a \in Amounts, w \in 0..MaxWs,
        u \in UNION { CaseVariants(tok) : tok \in UnitAlternatives } }

OtherSizes ==
    { NullV, UndefinedV, StrV(<<>>), StrV(<<" ">>), StrV(<<" ", "\t", " ">>),
      StrV(<<"i", "n", "v", "a", "l", "i", "d">>),
      StrV(<<"k", "g">>),
      StrV(<<"-", "1", "k", "g">>),
      StrV(<<"+", "1", "k", "g">>),
      StrV(<<"1", "k", "g", "s">>),
      StrV(<<"1", " ", "k", "i", "l", "o">>),
      StrV(<<"1", ".", "k", "g">>),
      StrV(<<".", "5", "k", "g">>),
      StrV(<<"1", ",", "5", "k", "g">>),
      StrV(<<"1", "k", "g", "!">>),
      StrV(<<"x", "1", "k", "g">>),
      StrV(<<"1", " ", "k", " ", "g">>),
      StrV(<<"1", "e", "3", "g">>),
      StrV(<<"1", "k", "g", " ", "2", "k", "g">>),
      StrV(<<"1", " ", "k", "g", "g">>),
      StrV(<<"2", " ", "l", "i", "t", "e", "r">>),
      StrV(<<"6", " ", "p", "i", "e", "c", "e", "z">>),
      StrV(<<"1", ".", "5", ".", "5", "k", "g">>),
      StrV(<<"5", "0", "0">>),
      StrV(<<" ", "1", "k", "g", " ">>),
      StrV(<<"\t", "5", "0", "0", " ", "m", "l", "\n">>) }

SizeInputs == WellFormedSizes \cup OtherSizes

\* prices given as numbers, each finite one n/d
FinitePrices ==
    { Fin(5, 2), Fin(6, 5), Fin(18, 5), Fin(15, 4), Fin(1, 1), Fin(1, 8),
      Fin(1, 250), Fin(201, 200), Fin(0, 1), Fin(-1, 1) }

\* prices given as strings that parse to a number > 0, each with its value n/d
PricedStrings ==
    { [txt |-> <<"2", ".", "5", "0">>, n |-> 5, d |-> 2],
      [txt |-> <<"3", ".", "6">>, n |-> 18, d |-> 5],
      [txt |-> <<" ", "1", ".", "2">>, n |-> 6, d |-> 5],
      [txt |-> <<"2", ".", "5", "a", "b", "c">>, n |-> 5, d |-> 2],
      [txt |-> <<"2", "5", "e", "-", "1">>, n |-> 5, d |-> 2],
      [txt |-> <<".", "5">>, n |-> 1, d |-> 2],
      [txt |-> <<"1", ".">>, n |-> 1, d |-> 1],
      [txt |-> <<"+", "2">>, n |-> 2, d |-> 1] }

\* strings that parse to no number
NonNumericStrings ==
    { <<"a", "b", "c">>, <<>>, <<".">>, <<"N", "a", "N">>, <<"e", "5">>,
      <<"-">>, <<"$", "2">> }

\* strings that parse to a number <= 0
NonPositiveStrings ==
    { <<"-", "1">>, <<"0">>, <<"0", ".", "0", "0">>, <<"-", "2", ".", "5">>,
      <<"-">> \o InfinityChars }

StringPrices ==
    { ps.txt : ps \in PricedStrings } \cup NonNumericStrings
    \cup NonPositiveStrings \cup {InfinityChars}

PriceInputs ==
    { NumberV(x) : x \in FinitePrices \cup {NaN, Infinity, NegInfinity} }
    \cup { DecimalV(x) : x \in {Fin(5, 2), Fin(18, 5), Fin(0, 1), Fin(-1, 1)} }
    \cup { PriceStrV(s) : s \in StringPrices }

NotCalled == [k |-> "none", n |-> 0, d |-> 1]

-----------------------------------------------------------------------------
(* One call of calculatePricePerUnit on arbitrary arguments *)

\* no call of calculatePricePerUnit
CalcIdle == size = NullV /\ price = AbsentV /\ result = NotCalled /\ called = FALSE

\* no products table
ProductsIdle == products = <<>> /\ httpStatus = 0 /\ request = <<>>

\* no aggregation
AggIdle == items = <<>> /\ response = <<>> /\ responded = FALSE

\* no stored shopping lists
AgainIdle == stored = <<>> /\ locals = <<>> /\ seen = {} /\ gets = 0

\* no database of users' resources
OwnerIdle == db = <<>> /\ last = <<>> /\ requests = 0

CalcInit ==
    /\ size \in SizeInputs
    /\ price \in PriceInputs
    /\ result = NotCalled
    /\ called = FALSE
    /\ ProductsIdle
    /\ AggIdle
    /\ AgainIdle
    /\ OwnerIdle

Calculate ==
    /\ ~called
    /\ result' = calculatePricePerUnit(size, price)
    /\ called' = TRUE
    /\ UNCHANGED <<size, price>>
    /\ UNCHANGED outsideCalc

CalcNext == Calculate

CalcSpec == CalcInit /\ [][CalcNext]_vars

-----------------------------------------------------------------------------
(* The aggregation of GET /api/shopping-lists/:id *)

MaxItems == 2

\* a condition that takes a Decimal for false when its value is 0
truthy_byValue(v) ==
    IF v.t \in {"object", "number"} THEN ~(isNaN(v.v) \/ (v.v.k = "fin" /\ v.v.n = 0))
    ELSE IF v.t = "string" THEN v.s # <<>>
    ELSE FALSE

\* a value in a condition: an object is true, null and undefined are false,
\* a number is false when it is 0 or NaN, a string when it is empty
truthy(v) ==
    IF v.t = "object" THEN TRUE
    ELSE IF v.t = "number" THEN ~(isNaN(v.v) \/ (v.v.k = "fin" /\ v.v.n = 0))
    ELSE IF v.t = "string" THEN v.s # <<>>
    ELSE FALSE

\* typeof v === 'object' ? v.toNumber() : Number(v), for v a Decimal or a
\* number
toNumber(v) == v.v

Zero == Fin(0, 1)

\* the index of the shop's entry in the map, 0 when the map has none
indexOfShop(itemsByShop, shopId) ==
    IF \E k \in 1..Len(itemsByShop) : itemsByShop[k].shop.id = shopId
    THEN CHOOSE k \in 1..Len(itemsByShop) : itemsByShop[k].shop.id = shopId
    ELSE 0

\* the amount a bought item adds to the actual totals
actualPriceOf(item, productPrice) ==
    IF truthy(item.actualPrice) THEN toNumber(item.actualPrice) ELSE productPrice

\* a test that takes wrong_price items for bought as well
countsAsBought_wrongPriceToo(item) == item.status \in {"bought", "wrong_price"}

\* whether the item adds to the actual totals
countsAsBought(item) == item.status = "bought"

\* a product price that leaves out the items that were not available
productPriceOf_availableOnly(item) ==
    IF item.status = "not_available" THEN Zero ELSE toNumber(item.product.price)

\* a product price that is rounded to one decimal before it is added
productPriceOf_roundedFirst(item) ==
    LET x == toNumber(item.product.price)
    IN  Fin((20 * x.n + x.d) \div (2 * x.d), 10)

\* the amount the item adds to the expected totals
productPriceOf(item) == toNumber(item.product.price)

freshShopData(item) ==
    [shop |-> item.product.shop, items |-> <<>>,
     expectedTotal |-> Zero, actualTotal |-> Zero]

\* a map that gets a fresh entry for the shop of every item, replacing the
\* entry the shop has
withShop_alwaysSet(itemsByShop, item) ==
    LET k == indexOfShop(itemsByShop, item.product.shopId)
    IN  IF k # 0 THEN [itemsByShop EXCEPT ![k] = freshShopData(item)]
        ELSE Append(itemsByShop, freshShopData(item))

\* a map that puts the entry of a new shop first
withShop_newFirst(itemsByShop, item) ==
    IF indexOfShop(itemsByShop, item.product.shopId) # 0 THEN itemsByShop
    ELSE <<freshShopData(item)>> \o itemsByShop

\* the map with an entry for the item's shop: a shop not yet in the map gets
\* an empty entry after the entries the map has
withShop(itemsByShop, item) ==
    IF indexOfShop(itemsByShop, item.product.shopId) # 0 THEN itemsByShop
    ELSE Append(itemsByShop, freshShopData(item))

\* one call of the forEach callback: acc is the map (in insertion order) and
\* the two running totals
forEachStep(acc, item) ==
    LET shopId == item.product.shopId
        map1 == withShop(acc.itemsByShop, item)
        k == indexOfShop(map1, shopId)
        shopData == map1[k]
        formattedItem == [id |-> item.id, productId |-> item.productId,
                          status |-> item.status, actualPrice |-> item.actualPrice,
                          notes |-> item.notes,
                          product |-> [id |-> item.product.id,
                                       price |-> item.product.price]]
        productPrice == productPriceOf(item)
        bought == countsAsBought(item)
        actualPrice == actualPriceOf(item, productPrice)
        shopData2 ==
            [shop |-> shopData.shop,
             items |-> Append(shopData.items, formattedItem),
             expectedTotal |-> NumAdd(shopData.expectedTotal, productPrice),
             actualTotal |-> IF bought THEN NumAdd(shopData.actualTotal, actualPrice)
                             ELSE shopData.actualTotal]
    IN  [itemsByShop |-> [map1 EXCEPT ![k] = shopData2],
         overallExpectedTotal |-> NumAdd(acc.overallExpectedTotal, productPrice),
         overallActualTotal |-> IF bought THEN NumAdd(acc.overallActualTotal, actualPrice)
                                ELSE acc.overallActualTotal]

RECURSIVE forEachItems(_, _, _)
forEachItems(its, k, acc) ==
    IF k > Len(its) THEN acc
    ELSE LET next == CHOOSE a \in {forEachStep(acc, its[k])} : TRUE
         IN  forEachItems(its, k + 1, next)

\* Array.from(itemsByShop.values()).map(...)
itemsByShopArray(itemsByShop) ==
    [k \in 1..Len(itemsByShop) |->
        [shop |-> itemsByShop[k].shop,
         items |-> itemsByShop[k].items,
         expectedTotal |-> parseFloat(toFixed2(itemsByShop[k].expectedTotal)),
         actualTotal |-> parseFloat(toFixed2(itemsByShop[k].actualTotal)),
         itemCount |-> Len(itemsByShop[k].items)]]

\* the map and the running totals as the handler declares them
FreshLocals ==
    [itemsByShop |-> <<>>, overallExpectedTotal |-> Zero, overallActualTotal |-> Zero]

\* an aggregation that has no totals for a list without items
aggregate_emptyAsNull(its) ==
    LET acc == forEachItems(its, 1, FreshLocals)
    IN  [itemsByShop |-> itemsByShopArray(acc.itemsByShop),
         overallExpectedTotal |-> IF its = <<>> THEN Null
                                  ELSE parseFloat(toFixed2(acc.overallExpectedTotal)),
         overallActualTotal |-> IF its = <<>> THEN Null
                                ELSE parseFloat(toFixed2(acc.overallActualTotal)),
         totalItems |-> Len(its)]

\* an aggregation whose overall expected total is that of the first shop
aggregate_firstShopOverall(its) ==
    LET acc == forEachItems(its, 1, FreshLocals)
        groups == itemsByShopArray(acc.itemsByShop)
    IN  [itemsByShop |-> groups,
         overallExpectedTotal |-> IF groups = <<>> THEN Zero
                                  ELSE groups[1].expectedTotal,
         overallActualTotal |-> parseFloat(toFixed2(acc.overallActualTotal)),
         totalItems |-> Len(its)]

\* the shoppingList object of the response
aggregate(its) ==
    LET acc == forEachItems(its, 1, FreshLocals)
    IN  [itemsByShop |-> itemsByShopArray(acc.itemsByShop),
         overallExpectedTotal |-> parseFloat(toFixed2(acc.overallExpectedTotal)),
         overallActualTotal |-> parseFloat(toFixed2(acc.overallActualTotal)),
         totalItems |-> Len(its)]

\* the products an item can refer to, each with its shop and price
ListProducts ==
    { [id |-> "p1", shopId |-> "shopA", price |-> DecimalV(Fin(5, 2)),
       shop |-> [id |-> "shopA", name |-> "A", address |-> "a street"]],
      [id |-> "p2", shopId |-> "shopA", price |-> DecimalV(Fin(111, 100)),
       shop |-> [id |-> "shopA", name |-> "A", address |-> "a street"]],
      [id |-> "p3", shopId |-> "shopB", price |-> DecimalV(Fin(333, 100)),
       shop |-> [id |-> "shopB", name |-> "B", address |-> "null"]] }

Statuses == {"pending", "bought", "not_bought", "wrong_price", "not_available"}

\* a status outside the enumeration
UnknownStatus == "archived"

NotBoughtStatuses == (Statuses \ {"bought"}) \cup {UnknownStatus}

ActualPrices == { NullNumV, DecimalV(Fin(2, 1)), DecimalV(Fin(0, 1)) }

\* the status and actual price of an item: a bought item with every actual
\* price, every other status without one, and a wrong_price item with one
StatusAndActualPrice ==
    { [status |-> "bought", actualPrice |-> ap] : ap \in ActualPrices }
    \cup { [status |-> s, actualPrice |-> NullNumV] : s \in NotBoughtStatuses }
    \cup { [status |-> "wrong_price", actualPrice |-> DecimalV(Fin(2, 1))] }

ItemKinds ==
    { [product |-> p, status |-> sa.status, actualPrice |-> sa.actualPrice] :
        p \in ListProducts, sa \in StatusAndActualPrice }

\* the rows of a list of the given kinds: the k-th row has id k
ItemList(kinds) ==
    [k \in 1..Len(kinds) |->
        [id |-> k, productId |-> kinds[k].product.id,
         status |-> kinds[k].status, actualPrice |-> kinds[k].actualPrice,
         notes |-> "", product |-> kinds[k].product]]

AggInit ==
    /\ \E n \in 0..MaxItems :
           \E kinds \in [1..n -> ItemKinds] : items = ItemList(kinds)
    /\ response = <<>>
    /\ responded = FALSE
    /\ CalcIdle
    /\ ProductsIdle
    /\ AgainIdle
    /\ OwnerIdle

\* router.get('/:id')
GetShoppingList ==
    /\ ~responded
    /\ response' = aggregate(items)
    /\ responded' = TRUE
    /\ UNCHANGED items
    /\ UNCHANGED outsideAgg

AggNext == GetShoppingList

AggSpec == AggInit /\ [][AggNext]_vars

-----------------------------------------------------------------------------
(* GET /api/shopping-lists/:id again and again, on the lists of the database *)

MaxGets == 3

ListIds == {"list1", "list2"}

\* locals that are those the last run left over
newLocals_kept(left) == IF left = <<>> THEN FreshLocals ELSE left

\* the locals of a run: a new Map and two totals of 0, whatever the last run
\* left
newLocals(left) == FreshLocals

\* the shoppingList object of the response, from the locals after forEach
responseOf(acc, its) ==
    [itemsByShop |-> itemsByShopArray(acc.itemsByShop),
     overallExpectedTotal |-> parseFloat(toFixed2(acc.overallExpectedTotal)),
     overallActualTotal |-> parseFloat(toFixed2(acc.overallActualTotal)),
     totalItems |-> Len(its)]

\* the kinds of items of the stored lists
StoredKinds ==
    { k \in ItemKinds :
        \/ k.status = "bought" /\ k.actualPrice = NullNumV /\ k.product.id \in {"p1", "p3"}
        \/ k.status = "bought" /\ k.actualPrice # NullNumV /\ k.product.id = "p2"
                /\ k.actualPrice.v # Zero
        \/ k.status = "pending" /\ k.product.id = "p3" }

AgainInit ==
    /\ \E len \in [ListIds -> 0..MaxItems] :
           \E kinds \in [ListIds -> [1..MaxItems -> StoredKinds]] :
               stored = [l \in ListIds |->
                            ItemList(SubSeq(kinds[l], 1, len[l]))]
    /\ locals = <<>>
    /\ seen = {}
    /\ gets = 0
    /\ AggIdle
    /\ CalcIdle
    /\ ProductsIdle
    /\ OwnerIdle

\* router.get('/:id') for a list of the database
GetStoredList(l) ==
    /\ gets < MaxGets
    /\ \E acc \in {forEachItems(stored[l], 1, newLocals(locals))} :
       \E resp \in {responseOf(acc, stored[l])} :
           /\ locals' = acc
           /\ response' = resp
           /\ seen' = seen \cup {<<stored[l], resp>>}
    /\ items' = stored[l]
    /\ responded' = TRUE
    /\ gets' = gets + 1
    /\ UNCHANGED stored
    /\ UNCHANGED <<calcVars, productVars, request, ownerVars>>

AgainNext == \E l \in ListIds : GetStoredList(l)

AgainSpec == AgainInit /\ [][AgainNext]_vars

-----------------------------------------------------------------------------
(* Claims about calculatePricePerUnit *)

\* the divisor that turns an amount in the unit into base units
UnitDivisor(tok) ==
    IF tok \in {<<"g">>, <<"m", "l">>} THEN 1000
    ELSE IF tok = <<"m", "g">> THEN 1000000
    ELSE 1

\* (pn/pd) / ((an/ad) / div) in hundredths, rounded half away from zero
RoundedQuotient(pn, pd, an, ad, div) ==
    LET num == pn * ad * div
        den == pd * an
        g == GCD(num, den)
        q == den \div g
    IN  Fin((200 * (num \div g) + q) \div (2 * q), 100)

\* the value of the price when the price is a finite number > 0 or a string
\* that parses to one
PositivePrices ==
    { [p |-> NumberV(x), n |-> x.n, d |-> x.d] : x \in {y \in FinitePrices : y.n > 0} }
    \cup { [p |-> DecimalV(x), n |-> x.n, d |-> x.d] : x \in {Fin(5, 2), Fin(18, 5)} }
    \cup { [p |-> PriceStrV(ps.txt), n |-> ps.n, d |-> ps.d] : ps \in PricedStrings }

\* the prices that are zero, negative or no number
RejectedPrices ==
    { NumberV(x) : x \in {Fin(0, 1), Fin(-1, 1), NaN, NegInfinity} }
    \cup { DecimalV(x) : x \in {Fin(0, 1), Fin(-1, 1)} }
    \cup { PriceStrV(s) : s \in NonNumericStrings \cup NonPositiveStrings }

\* the well-formed sizes with amount > 0, each with its amount an/ad and the
\* divisor of its unit
PositiveSizeCases ==
    UNION { { [sz |-> WellFormedSize(a, w, u), an |-> a.n, ad |-> a.d,
               div |-> UnitDivisor(tok)] : u \in CaseVariants(tok) } :
            a \in {x \in Amounts : x.n > 0}, w \in 0..MaxWs, tok \in UnitAlternatives }

PositiveSizeCaseOf ==
    [sz \in {c.sz : c \in PositiveSizeCases} |->
        CHOOSE c \in PositiveSizeCases : c.sz = sz]

PositivePriceOf ==
    [p \in {pp.p : pp \in PositivePrices} |-> CHOOSE pp \in PositivePrices : pp.p = p]

C2_ResultPositive ==
    (called /\ result # Null) => GtZero(result)

\* C9: the result is null when the price is zero, negative or no number,
\* for every size
C9_RejectedPriceGivesNull ==
    (called /\ price \in RejectedPrices) => result = Null

\* a well-formed size with a price of zero
C9_Witness ==
    /\ called
    /\ size = StrV(<<"1", "k", "g">>)
    /\ price \in {NumberV(Fin(0, 1)), PriceStrV(<<"a", "b", "c">>)}
    /\ result = Null

\* C10: the result is never a non-finite number
C10_ResultFinite ==
    called => result.k \in {"null", "fin"}

\* the texts <amount><white space><unit> of the sizes above
WellFormedTexts == { sz.s : sz \in WellFormedSizes }

\* C11: the result is null for every size whose trimmed text is not one
\* decimal amount, optional white space and one recognized unit token
C11_MalformedSizeGivesNull ==
    (called /\ size.t = "string" /\ trim(size.s) \notin WellFormedTexts) =>
        result = Null

\* a unit with a trailing letter, and a sign, each with a price > 0
C11_Witness ==
    /\ called
    /\ size \in {StrV(<<"1", "k", "g", "s">>), StrV(<<"-", "1", "k", "g">>)}
    /\ price = NumberV(Fin(5, 2))
    /\ result = Null

\* whether the size is null, undefined, empty or white space only
BlankSize(sz) ==
    sz.t \in {"null", "undefined"}
    \/ (sz.t = "string" /\ \A i \in 1..Len(sz.s) : sz.s[i] \in {" ", "\t", "\n"})

\* C12: the result is null when the size is null, undefined, empty or white
\* space only, for every price
C12_BlankSizeGivesNull ==
    (called /\ BlankSize(size)) => result = Null

\* a size of null and a size of white space, each with a price > 0
C12_Witness ==
    /\ called
    /\ size \in {NullV, StrV(<<" ", "\t", " ">>)}
    /\ price = NumberV(Fin(5, 2))
    /\ result = Null

\* the well-formed sizes whose amount is zero
ZeroAmountSizes ==
    { WellFormedSize(a, w, u) :
        a \in {x \in Amounts : x.n = 0}, w \in 0..MaxWs,
        u \in UNION { CaseVariants(tok) : tok \in UnitAlternatives } }

\* C13: the result is null when the amount of the size is zero, for every
\* recognized unit and every price
C13_ZeroAmountGivesNull ==
    (called /\ size \in ZeroAmountSizes) => result = Null

\* "0kg" and "0.0 ml" with a price > 0
C13_Witness ==
    /\ called
    /\ size \in {StrV(<<"0", "k", "g">>), StrV(<<"0", ".", "0", " ", "m", "l">>)}
    /\ price = NumberV(Fin(5, 2))
    /\ result = Null

-----------------------------------------------------------------------------
(* The product routes: POST /api/products and PUT /api/products/:id *)

MaxProducts == 1

ProductIds == 1..MaxProducts

NoProduct == [present |-> FALSE, size |-> NullV, price |-> Null, pricePerUnit |-> Null]

\* the price schema: a number > 0, or a string whose parseFloat is a
\* number > 0; Null when the value is rejected
zodPrice(p) ==
    LET x == IF p.t = "string" THEN parseFloat(p.s) ELSE p.v
    IN  IF p.t \in {"number", "string"} /\ GtZero(x) THEN x ELSE Null

\* whether a value can be written to a DECIMAL(10,2) column
fitsDecimal(x) ==
    x = Null \/ (IsFin(x) /\ Abs(x.n) \div x.d < 100000000)

\* a value as a DECIMAL(10,2) column stores it: rounded to 2 decimals
toDecimal(x) ==
    IF x = Null THEN Null
    ELSE IF x.n < 0 THEN Fin(-RoundCents([x EXCEPT !.n = -x.n]), 100)
    ELSE Fin(RoundCents(x), 100)

\* the id the table gives the next product
FreeIds == {id \in ProductIds : ~products[id].present}

\* router.post('/')
PostProduct(sz, p) ==
    /\ FreeIds # {}
    /\ IF sz.t = "null" \/ zodPrice(p) = Null
       THEN /\ httpStatus' = 400
            /\ UNCHANGED products
       ELSE \E priceZ \in {zodPrice(p)} :
            \E pricePerUnit \in {calculatePricePerUnit(sz, NumberV(priceZ))} :
            \E id \in {i \in FreeIds : \A j \in FreeIds : i <= j} :
               IF ~fitsDecimal(priceZ) \/ ~fitsDecimal(pricePerUnit)
               THEN /\ httpStatus' = 500
                    /\ UNCHANGED products
               ELSE /\ httpStatus' = 201
                    /\ products' = [products EXCEPT ![id] =
                           [present |-> TRUE,
                            size |-> IF sz.t = "undefined" THEN NullV ELSE sz,
                            price |-> toDecimal(priceZ),
                            pricePerUnit |-> toDecimal(pricePerUnit)]]
    /\ UNCHANGED outsideProducts

\* an update that recalculates only when the body has a size
updatePricePerUnit_sizeOnly(existingProduct, sz, p, ppu) ==
    IF sz.t # "undefined"
    THEN LET newPrice == IF p.t # "undefined" THEN NumberV(zodPrice(p))
                         ELSE DecimalV(existingProduct.price)
         IN  NumberV(calculatePricePerUnit(sz, newPrice))
    ELSE ppu

\* the pricePerUnit the update writes: recalculated when the body has size or
\* price, else the body's own pricePerUnit
updatePricePerUnit(existingProduct, sz, p, ppu) ==
    IF sz.t # "undefined" \/ p.t # "undefined"
    THEN LET newSize == IF sz.t # "undefined" THEN sz ELSE existingProduct.size
             newPrice == IF p.t # "undefined" THEN NumberV(zodPrice(p))
                         ELSE DecimalV(existingProduct.price)
         IN  NumberV(calculatePricePerUnit(newSize, newPrice))
    ELSE ppu

\* the body of a PUT the update schema rejects
putBodyInvalid(p, ppu) ==
    \/ p.t # "undefined" /\ zodPrice(p) = Null
    \/ ppu.t = "number" /\ ~GtZero(ppu.v)
    \/ ppu.t = "string"

\* router.put('/:id')
PutProduct(id, sz, p, ppu) ==
    /\ IF putBodyInvalid(p, ppu)
       THEN /\ httpStatus' = 400
            /\ UNCHANGED products
       ELSE IF ~products[id].present
       THEN /\ httpStatus' = 404
            /\ UNCHANGED products
       ELSE \E existingProduct \in {products[id]} :
            \E newPpu \in {updatePricePerUnit(existingProduct, sz, p, ppu)} :
            \E priceW \in {IF p.t # "undefined" THEN zodPrice(p)
                           ELSE existingProduct.price} :
            \E ppuW \in {IF newPpu.t = "undefined" THEN existingProduct.pricePerUnit
                         ELSE IF newPpu.t = "null" THEN Null
                         ELSE newPpu.v} :
               IF ~fitsDecimal(priceW) \/ ~fitsDecimal(ppuW)
               THEN /\ httpStatus' = 500
                    /\ UNCHANGED products
               ELSE /\ httpStatus' = 200
                    /\ products' = [products EXCEPT ![id] =
                           [present |-> TRUE,
                            size |-> IF sz.t = "undefined" THEN existingProduct.size
                                     ELSE IF sz.t = "null" THEN NullV
                                     ELSE sz,
                            price |-> toDecimal(priceW),
                            pricePerUnit |-> toDecimal(ppuW)]]
    /\ UNCHANGED outsideProducts

\* request bodies
BodySizes ==
    { UndefinedV, NullV, StrV(<<"1", "k", "g">>), StrV(<<"5", "0", "0", " ", "g">>),
      StrV(<<"6", " ", "P", "c", "s">>), StrV(<<"i", "n", "v", "a", "l", "i", "d">>) }

BodyPrices ==
    { AbsentV, NumberV(Fin(5, 2)), NumberV(Fin(6, 5)),
      PriceStrV(<<"1", ".", "0", "0", "4">>), NumberV(Fin(0, 1)),
      PriceStrV(InfinityChars) }

BodyPricePerUnits == { AbsentV, NullNumV, NumberV(Fin(999, 100)) }

ProductInit ==
    /\ products = [id \in ProductIds |-> NoProduct]
    /\ httpStatus = 0
    /\ request = <<>>
    /\ CalcIdle
    /\ AggIdle
    /\ AgainIdle
    /\ OwnerIdle

ProductNext ==
    \/ \E sz \in BodySizes, p \in BodyPrices :
          PostProduct(sz, p) /\ UNCHANGED request
    \/ \E id \in ProductIds, sz \in BodySizes, p \in BodyPrices,
          ppu \in BodyPricePerUnits :
          PutProduct(id, sz, p, ppu) /\ UNCHANGED request

ProductSpec == ProductInit /\ [][ProductNext]_vars

-----------------------------------------------------------------------------
(* One PUT /api/products/:id, after the products were created *)

\* the PUT requests: before is the row the product has when the request is
\* handled, status the status of the answer
PutRequests ==
    [id : ProductIds, size : BodySizes, price : BodyPrices,
     pricePerUnit : BodyPricePerUnits, handled : {FALSE}, before : {NoProduct},
     status : {0}]

\* the bodies of the POST requests that come before the PUT
PostedSizes == { UndefinedV, StrV(<<"1", "k", "g">>), StrV(<<"5", "0", "0", " ", "g">>) }

PostedPrices == { NumberV(Fin(5, 2)), PriceStrV(<<"1", ".", "0", "0", "4">>) }

PutInit ==
    /\ products = [id \in ProductIds |-> NoProduct]
    /\ httpStatus = 0
    /\ request \in PutRequests
    /\ CalcIdle
    /\ AggIdle
    /\ AgainIdle
    /\ OwnerIdle

\* router.put('/:id') for the request
PutRequested ==
    /\ ~request.handled
    /\ PutProduct(request.id, request.size, request.price, request.pricePerUnit)
    /\ request' = [request EXCEPT !.handled = TRUE,
                                   !.before = products[request.id],
                                   !.status = httpStatus']

PutNext ==
    \/ \E sz \in PostedSizes, p \in PostedPrices :
          ~request.handled /\ PostProduct(sz, p) /\ UNCHANGED request
    \/ PutRequested

PutSpec == PutInit /\ [][PutNext]_vars

-----------------------------------------------------------------------------
(* Claims about the product routes *)

\* C3: in every state reached through POST and PUT requests, each stored
\* product's pricePerUnit is calculatePricePerUnit of its stored size and price
C3_StoredUnitPriceDerived ==
    \A id \in DOMAIN products :
        products[id].present =>
            products[id].pricePerUnit =
                calculatePricePerUnit(products[id].size, DecimalV(products[id].price))

\* the pricePerUnit the claim expects after a PUT with size or price in the
\* body: calculatePricePerUnit of the new size and the new price, each the
\* body's when the body has it and the stored one otherwise
ExpectedAfterPut(before, req) ==
    calculatePricePerUnit(
        IF req.size.t # "undefined" THEN req.size ELSE before.size,
        IF req.price.t # "undefined" THEN req.price ELSE DecimalV(before.price))

\* C17: a PUT with size and/or price in the body, when it is accepted, stores
\* pricePerUnit = calculatePricePerUnit(newSize, newPrice), an absent field
\* taking the stored value; a size of null stores a pricePerUnit of null
C17_PutRecalculates ==
    (request # <<>> /\ request.handled /\ request.status = 200
        /\ (request.size.t # "undefined" \/ request.price.t # "undefined")) =>
        /\ products[request.id].pricePerUnit
               = ExpectedAfterPut(request.before, request)
        /\ request.size.t = "null" => products[request.id].pricePerUnit = Null

\* a size of null for a product that had a unit price; a new price alone
C17_Witness ==
    /\ request # <<>> /\ request.handled /\ request.status = 200
    /\ request.before.pricePerUnit # Null
    /\ \/ /\ request.size.t = "null"
          /\ products[request.id].pricePerUnit = Null
       \/ /\ request.size.t = "undefined"
          /\ request.price = NumberV(Fin(6, 5))
          /\ request.before.size = StrV(<<"5", "0", "0", " ", "g">>)
          /\ products[request.id].pricePerUnit = Fin(12, 5)

-----------------------------------------------------------------------------
(* Claims about the aggregation *)

\* a Money value in hundredths
CentsOf(x) == (x.n * 100) \div x.d

\* what the claims say an item adds to the actual totals, in hundredths:
\* nothing unless it is bought, its actualPrice when that is not null, its
\* product price when actualPrice is null
ActualCents(item) ==
    IF item.status # "bought" THEN 0
    ELSE IF item.actualPrice.t # "null" THEN CentsOf(item.actualPrice.v)
    ELSE CentsOf(item.product.price.v)

\* what the claims say an item adds to the expected totals, in hundredths
ExpectedCents(item) == CentsOf(item.product.price.v)

InShop(item, shopId) == shopId = "" \/ item.product.shopId = shopId

\* the sum of ActualCents over the first k items that are of the shop (of
\* any shop when shopId is "")
RECURSIVE SumActualCents(_, _, _)
SumActualCents(its, k, shopId) ==
    IF k = 0 THEN 0
    ELSE SumActualCents(its, k - 1, shopId)
         + (IF InShop(its[k], shopId) THEN ActualCents(its[k]) ELSE 0)

RECURSIVE SumExpectedCents(_, _, _)
SumExpectedCents(its, k, shopId) ==
    IF k = 0 THEN 0
    ELSE SumExpectedCents(its, k - 1, shopId)
         + (IF InShop(its[k], shopId) THEN ExpectedCents(its[k]) ELSE 0)

Groups == response.itemsByShop

\* C4: an item adds to its group's actualTotal and to overallActualTotal only
\* when its status is bought, and what it adds is its actualPrice when that is
\* not null (whatever its value) and its product price only when it is null
C4_ActualTotals ==
    responded =>
        /\ response.overallActualTotal = Fin(SumActualCents(items, Len(items), ""), 100)
        /\ \A g \in 1..Len(Groups) :
               Groups[g].actualTotal
                   = Fin(SumActualCents(items, Len(items), Groups[g].shop.id), 100)

\* a bought item with an actual price of 0 next to a bought item with none
C4_Witness ==
    /\ responded
    /\ Len(items) = 2
    /\ items[1].status = "bought" /\ items[1].actualPrice = DecimalV(Fin(0, 1))
    /\ items[2].status = "bought" /\ items[2].actualPrice = NullNumV
    /\ items[1].product.shopId = items[2].product.shopId
    /\ response.overallActualTotal = items[2].product.price.v
    /\ Groups[1].actualTotal = items[2].product.price.v

\* C5: every item adds its product price to its group's expectedTotal and to
\* overallExpectedTotal whatever its status
C5_ExpectedTotals ==
    responded =>
        /\ response.overallExpectedTotal
               = Fin(SumExpectedCents(items, Len(items), ""), 100)
        /\ \A g \in 1..Len(Groups) :
               Groups[g].expectedTotal
                   = Fin(SumExpectedCents(items, Len(items), Groups[g].shop.id), 100)

\* two items of different shops, neither bought
C5_Witness ==
    /\ responded
    /\ Len(items) = 2
    /\ items[1].status = "not_available" /\ items[2].status = "pending"
    /\ items[1].product.id = "p3" /\ items[2].product.id = "p2"
    /\ response.overallExpectedTotal = Fin(444, 100)
    /\ Groups[1].expectedTotal = Fin(333, 100)
    /\ Groups[2].expectedTotal = Fin(111, 100)

\* the totals of a response: the overall ones and those of each shop
TotalsOf(resp) ==
    [overallExpectedTotal |-> resp.overallExpectedTotal,
     overallActualTotal |-> resp.overallActualTotal,
     groups |-> [g \in 1..Len(resp.itemsByShop) |->
                    [shop |-> resp.itemsByShop[g].shop.id,
                     expectedTotal |-> resp.itemsByShop[g].expectedTotal,
                     actualTotal |-> resp.itemsByShop[g].actualTotal]]]

\* the actual total the response reports for the shop, 0 when it has no group
ActualTotalOfShop(resp, shopId) ==
    IF \E g \in 1..Len(resp.itemsByShop) : resp.itemsByShop[g].shop.id = shopId
    THEN resp.itemsByShop[CHOOSE g \in 1..Len(resp.itemsByShop) :
                              resp.itemsByShop[g].shop.id = shopId].actualTotal
    ELSE Zero

WithStatus(its, i, s) == [its EXCEPT ![i].status = s]

Without(its, i) == SubSeq(its, 1, i - 1) \o SubSeq(its, i + 1, Len(its))

ShopIds == {p.shopId : p \in ListProducts}

\* C6: an item that is pending, not_bought, wrong_price, not_available or of
\* an unknown status adds nothing to any actual total (the actual totals are
\* those of the list without it) and the aggregation still answers; giving it
\* another of these statuses changes no total
C6_NotBoughtAddsNothing ==
    responded =>
        \A i \in 1..Len(items) :
            items[i].status \in NotBoughtStatuses =>
                /\ response.totalItems = Len(items)
                /\ response.overallActualTotal
                       = aggregate(Without(items, i)).overallActualTotal
                /\ \A sh \in ShopIds :
                       ActualTotalOfShop(response, sh)
                           = ActualTotalOfShop(aggregate(Without(items, i)), sh)
                /\ \A s \in NotBoughtStatuses :
                       TotalsOf(aggregate(WithStatus(items, i, s))) = TotalsOf(response)

\* a wrong_price item with an actual price and an item of an unknown status,
\* and no actual total
C6_Witness ==
    /\ responded
    /\ Len(items) = 2
    /\ items[1].status = "wrong_price" /\ items[1].actualPrice = DecimalV(Fin(2, 1))
    /\ items[2].status = UnknownStatus
    /\ response.overallActualTotal = Zero
    /\ response.overallExpectedTotal # Zero

\* the positions in the groups at which the response has the item
PlacesOf(id) ==
    { <<g, j>> \in (1..Len(Groups)) \X (1..MaxItems) :
        j <= Len(Groups[g].items) /\ Groups[g].items[j].id = id }

RECURSIVE SumItemCounts(_)
SumItemCounts(g) ==
    IF g = 0 THEN 0 ELSE SumItemCounts(g - 1) + Groups[g].itemCount

\* C7: every item of the list is in exactly one group, a group has only
\* items whose product is of the group's shop, itemCount is the number of the
\* group's items, and the total item count is the length of the list and the
\* sum of the itemCounts
C7_GroupsPartitionItems ==
    responded =>
        /\ \A i \in 1..Len(items) : Cardinality(PlacesOf(items[i].id)) = 1
        /\ \A g \in 1..Len(Groups) :
               /\ Groups[g].itemCount = Len(Groups[g].items)
               /\ \A j \in 1..Len(Groups[g].items) :
                      \E i \in 1..Len(items) :
                          /\ items[i].id = Groups[g].items[j].id
                          /\ items[i].product.shopId = Groups[g].shop.id
        /\ response.totalItems = Len(items)
        /\ SumItemCounts(Len(Groups)) = Len(items)

\* two items of one shop
C7_Witness ==
    /\ responded
    /\ Len(items) = 2
    /\ items[1].product.id = "p1" /\ items[2].product.id = "p2"
    /\ Len(Groups) = 1
    /\ Groups[1].itemCount = 2

\* the position of the first item of the shop in the list
FirstOfShop(shopId) ==
    CHOOSE i \in 1..Len(items) :
        /\ items[i].product.shopId = shopId
        /\ \A j \in 1..(i - 1) : items[j].product.shopId # shopId

\* C8: the groups are in the order in which their shops first appear in the
\* list, and the items of a group are in the order they have in the list
C8_OrderKept ==
    responded =>
        /\ \A g, h \in 1..Len(Groups) :
               g < h => FirstOfShop(Groups[g].shop.id) < FirstOfShop(Groups[h].shop.id)
        /\ \A g \in 1..Len(Groups) :
               \A j, l \in 1..Len(Groups[g].items) :
                   j < l => Groups[g].items[j].id < Groups[g].items[l].id

\* shop B before shop A, and two items of one shop
C8_Witness ==
    /\ responded
    /\ Len(items) = 2
    /\ \/ /\ items[1].product.shopId = "shopB" /\ items[2].product.shopId = "shopA"
          /\ Groups[1].shop.id = "shopB" /\ Groups[2].shop.id = "shopA"
       \/ /\ items[1].product.id = "p2" /\ items[2].product.id = "p1"
          /\ Groups[1].items[1].id = 1 /\ Groups[1].items[2].id = 2

\* C14: the aggregation of a list without items answers with no groups,
\* overall totals of 0 and a total item count of 0
C14_EmptyList ==
    (responded /\ items = <<>>) =>
        /\ response.itemsByShop = <<>>
        /\ response.overallExpectedTotal = Zero
        /\ response.overallActualTotal = Zero
        /\ response.totalItems = 0

\* the list without items has been aggregated
C14_Witness ==
    /\ responded
    /\ items = <<>>
    /\ response.totalItems = 0
    /\ response.itemsByShop = <<>>

\* what the item adds to the expected totals (kind "expected") or to the
\* actual totals (kind "actual"), as an exact fraction
Contribution(item, kind) ==
    IF kind = "expected" THEN item.product.price.v
    ELSE IF item.status # "bought" THEN Zero
    ELSE IF item.actualPrice.t # "null" THEN item.actualPrice.v
    ELSE item.product.price.v

\* the exact sum of the contributions of the first k items that are of the
\* shop (of any shop when shopId is "")
RECURSIVE ExactSum(_, _, _, _)
ExactSum(its, k, shopId, kind) ==
    IF k = 0 THEN Zero
    ELSE LET rest == ExactSum(its, k - 1, shopId, kind)
         IN  IF InShop(its[k], shopId)
             THEN Fin(rest.n * Contribution(its[k], kind).d
                          + Contribution(its[k], kind).n * rest.d,
                      rest.d * Contribution(its[k], kind).d)
             ELSE rest

\* x >= 0 rounded to 2 decimals, a half upwards
RoundedOnce(x) == Fin((200 * x.n + x.d) \div (2 * x.d), 100)

-----------------------------------------------------------------------------
(* The routes of the users' resources: shops, products, offers, shopping    *)
(* lists and their items, each request by an authenticated user.  A row has *)
(* the columns that decide whose it is and one or two columns of data.      *)
(* Lists are answered as sets: their order (createdAt, startTime) is left   *)
(* out.                                                                     *)

MaxRequests == 2

MaxTime == 2

Users == {"u1", "u2"}

ShopKeys == 1..2

ProductKeys == 1..2

OfferKeys == 1..2

ListKeys == 1..2

\* the items of a list: the k-th item of list l is <<l, k>>
ItemKeys == ListKeys \X (1..2)

NoRow == [present |-> FALSE]

\* the row of a user that was deleted: its id is not given to a new user
GoneRow == [present |-> FALSE, gone |-> TRUE]

EmptyDb ==
    [users |-> [u \in Users |-> NoRow],
     shops |-> [s \in ShopKeys |-> NoRow],
     products |-> [q \in ProductKeys |-> NoRow],
     offers |-> [o \in OfferKeys |-> NoRow],
     lists |-> [l \in ListKeys |-> NoRow],
     items |-> [i \in ItemKeys |-> NoRow]]

\* the answer of a handler: the database it leaves, the status and the body
Answer(d, st, b) == [db |-> d, status |-> st, body |-> b]

\* a field of a body or a query that is absent, and one that has the value x
None == <<>>

Some(x) == <<x>>

\* the key a new row gets: the least one that is free
NewKey(rows) ==
    CHOOSE k \in DOMAIN rows :
        ~rows[k].present /\ \A j \in DOMAIN rows : ~rows[j].present => k <= j

HasFreeKey(rows) == \E k \in DOMAIN rows : ~rows[k].present

\* a shop lookup that does not look at the owner of the shop
findShop_anyUser(d, id, userId) == id \in ShopKeys /\ d.shops[id].present

\* prisma.shop.findFirst({ where: { id, userId } })
findShop(d, id, userId) ==
    id \in ShopKeys /\ d.shops[id].present /\ d.shops[id].userId = userId

\* prisma.product.findFirst({ where: { id, userId } })
findProduct(d, id, userId) ==
    id \in ProductKeys /\ d.products[id].present /\ d.products[id].userId = userId

\* an offer lookup that does not look at the owner of the product and shop
findOffer_anyUser(d, id, userId) ==
    id \in OfferKeys /\ d.offers[id].present

\* prisma.offer.findFirst({ where: { id, product: { userId }, shop: { userId } } })
findOffer(d, id, userId) ==
    /\ id \in OfferKeys /\ d.offers[id].present
    /\ d.products[d.offers[id].productId].userId = userId
    /\ d.shops[d.offers[id].shopId].userId = userId

\* prisma.shoppingList.findFirst({ where: { id, userId } })
findList(d, id, userId) ==
    id \in ListKeys /\ d.lists[id].present /\ d.lists[id].userId = userId

\* an item lookup that does not look at the owner of the list
findItem_anyUser(d, id, itemId, userId) ==
    /\ itemId \in ItemKeys /\ d.items[itemId].present
    /\ d.items[itemId].shoppingListId = id

\* prisma.shoppingListItem.findFirst({ where: { id: itemId, shoppingListId: id,
\* shoppingList: { userId } } })
findItem(d, id, itemId, userId) ==
    /\ itemId \in ItemKeys /\ d.items[itemId].present
    /\ d.items[itemId].shoppingListId = id
    /\ d.lists[id].userId = userId

\* ON DELETE CASCADE of the rows that refer to the products ps
withoutProducts(d, ps) ==
    [d EXCEPT
        !.products = [q \in ProductKeys |->
                         IF q \in ps THEN NoRow ELSE d.products[q]],
        !.offers = [o \in OfferKeys |->
                       IF d.offers[o].present /\ d.offers[o].productId \in ps
                       THEN NoRow ELSE d.offers[o]],
        !.items = [i \in ItemKeys |->
                      IF d.items[i].present /\ d.items[i].productId \in ps
                      THEN NoRow ELSE d.items[i]]]

\* prisma.shop.delete with ON DELETE CASCADE: the shop, its offers, its
\* products and what refers to them
withoutShop(d, s) ==
    LET ps == {q \in ProductKeys : d.products[q].present /\ d.products[q].shopId = s}
        d1 == [d EXCEPT
                  !.shops[s] = NoRow,
                  !.offers = [o \in OfferKeys |->
                                 IF d.offers[o].present /\ d.offers[o].shopId = s
                                 THEN NoRow ELSE d.offers[o]]]
    IN  withoutProducts(d1, ps)

\* a deletion of the list that leaves its items
withoutList_itemsKept(d, l) == [d EXCEPT !.lists[l] = NoRow]

\* prisma.shoppingList.delete with ON DELETE CASCADE
withoutList(d, l) ==
    [d EXCEPT
        !.lists[l] = NoRow,
        !.items = [i \in ItemKeys |->
                      IF d.items[i].present /\ d.items[i].shoppingListId = l
                      THEN NoRow ELSE d.items[i]]]

(* shops *)

\* createShopSchema, updateShopSchema: a name, when given, has 1 to 100
\* characters
shopBodyInvalid(body, nameRequired) ==
    \/ body.name = Some("")
    \/ nameRequired /\ body.name = None

\* GET /api/shops
listShops(d, userId) ==
    Answer(d, 200,
           { [id |-> s, name |-> d.shops[s].name] :
               s \in {k \in ShopKeys : d.shops[k].present /\ d.shops[k].userId = userId} })

\* GET /api/shops/:id
getShop(d, userId, id) ==
    IF ~findShop(d, id, userId) THEN Answer(d, 404, <<>>)
    ELSE Answer(d, 200, [id |-> id, name |-> d.shops[id].name])

\* POST /api/shops
postShop(d, userId, body) ==
    IF shopBodyInvalid(body, TRUE) THEN Answer(d, 400, <<>>)
    ELSE IF ~d.users[userId].present THEN Answer(d, 500, <<>>)
    ELSE LET id == NewKey(d.shops)
         IN  Answer([d EXCEPT !.shops[id] =
                        [present |-> TRUE, userId |-> userId, name |-> body.name[1]]],
                    201, [id |-> id, name |-> body.name[1]])

\* PUT /api/shops/:id
putShop(d, userId, id, body) ==
    IF shopBodyInvalid(body, FALSE) THEN Answer(d, 400, <<>>)
    ELSE IF ~findShop(d, id, userId) THEN Answer(d, 404, <<>>)
    ELSE LET name == IF body.name = None THEN d.shops[id].name ELSE body.name[1]
         IN  Answer([d EXCEPT !.shops[id].name = name], 200,
                    [id |-> id, name |-> name])

\* DELETE /api/shops/:id
deleteShop(d, userId, id) ==
    IF ~findShop(d, id, userId) THEN Answer(d, 404, <<>>)
    ELSE Answer(withoutShop(d, id), 200, <<>>)

(* products *)

\* createProductSchema, updateProductSchema: a name, when given, has 1 to 200
\* characters; POST needs name and shopId
productBodyInvalid(body, required) ==
    \/ body.name = Some("")
    \/ required /\ (body.name = None \/ body.shopId = None)

\* the product as the answers show it, with its shop
productView(d, q) ==
    [id |-> q, name |-> d.products[q].name, shopId |-> d.products[q].shopId,
     shop |-> [id |-> d.products[q].shopId,
               name |-> d.shops[d.products[q].shopId].name]]

\* GET /api/products
listProducts(d, userId) ==
    Answer(d, 200,
           { productView(d, q) :
               q \in {k \in ProductKeys :
                        d.products[k].present /\ d.products[k].userId = userId} })

\* GET /api/products/:id
getProduct(d, userId, id) ==
    IF ~findProduct(d, id, userId) THEN Answer(d, 404, <<>>)
    ELSE Answer(d, 200, productView(d, id))

\* POST /api/products
postProduct(d, userId, body) ==
    IF productBodyInvalid(body, TRUE) THEN Answer(d, 400, <<>>)
    ELSE IF ~findShop(d, body.shopId[1], userId) THEN Answer(d, 404, <<>>)
    ELSE LET id == NewKey(d.products)
             d1 == [d EXCEPT !.products[id] =
                       [present |-> TRUE, userId |-> userId,
                        shopId |-> body.shopId[1], name |-> body.name[1]]]
         IN  Answer(d1, 201, productView(d1, id))

\* PUT /api/products/:id
putProduct(d, userId, id, body) ==
    IF productBodyInvalid(body, FALSE) THEN Answer(d, 400, <<>>)
    ELSE IF ~findProduct(d, id, userId) THEN Answer(d, 404, <<>>)
    ELSE IF body.shopId # None /\ ~findShop(d, body.shopId[1], userId)
    THEN Answer(d, 404, <<>>)
    ELSE LET d1 == [d EXCEPT
                       !.products[id].name =
                           IF body.name = None THEN @ ELSE body.name[1],
                       !.products[id].shopId =
                           IF body.shopId = None THEN @ ELSE body.shopId[1]]
         IN  Answer(d1, 200, productView(d1, id))

\* DELETE /api/products/:id
deleteProduct(d, userId, id) ==
    IF ~findProduct(d, id, userId) THEN Answer(d, 404, <<>>)
    ELSE Answer(withoutProducts(d, {id}), 200, <<>>)

(* offers *)

\* createOfferSchema: offerPrice > 0 and startTime before endTime
createOfferInvalid(body) ==
    body.offerPrice <= 0 \/ ~(body.startTime < body.endTime)

\* updateOfferSchema: offerPrice, when given, > 0
updateOfferInvalid(body) ==
    body.offerPrice # None /\ body.offerPrice[1] <= 0

\* the offer as the answers show it, with its product and shop
offerView(d, o) ==
    [id |-> o, productId |-> d.offers[o].productId, shopId |-> d.offers[o].shopId,
     offerPrice |-> d.offers[o].offerPrice,
     startTime |-> d.offers[o].startTime, endTime |-> d.offers[o].endTime,
     product |-> [id |-> d.offers[o].productId,
                  name |-> d.products[d.offers[o].productId].name],
     shop |-> [id |-> d.offers[o].shopId,
               name |-> d.shops[d.offers[o].shopId].name]]

\* the where clause GET /api/offers builds from the time filters of its
\* query, each assignment replacing what the key held: startTime <= lte,
\* endTime >= gte, and OR [startTime > now, endTime < now]
offersWhere(query, now) ==
    LET w0 == [lte |-> None, gte |-> None, OR |-> None]
        w1 == IF query.active = Some("true")
              THEN [w0 EXCEPT !.lte = Some(now), !.gte = Some(now)]
              ELSE IF query.active = Some("false")
              THEN [w0 EXCEPT !.OR = Some(now)]
              ELSE w0
        w2 == IF query.startDate # None THEN [w1 EXCEPT !.gte = query.startDate] ELSE w1
    IN  IF query.endDate # None THEN [w2 EXCEPT !.lte = query.endDate] ELSE w2

\* the offer row satisfies the time conditions of the where clause
inWhere(row, where) ==
    /\ where.lte # None => row.startTime <= where.lte[1]
    /\ where.gte # None => row.endTime >= where.gte[1]
    /\ where.OR # None => (row.startTime > where.OR[1] \/ row.endTime < where.OR[1])

\* a list of offers that has the offers of every user
listOffers_ofAllUsers(d, userId, query, now) ==
    Answer(d, 200,
           { offerView(d, o) :
               o \in {k \in OfferKeys :
                        /\ d.offers[k].present
                        /\ query.productId # None =>
                               d.offers[k].productId = query.productId[1]
                        /\ query.shopId # None =>
                               d.offers[k].shopId = query.shopId[1]
                        /\ inWhere(d.offers[k], offersWhere(query, now))} })

\* GET /api/offers
listOffers(d, userId, query, now) ==
    Answer(d, 200,
           { offerView(d, o) :
               o \in {k \in OfferKeys :
                        /\ d.offers[k].present
                        /\ d.products[d.offers[k].productId].userId = userId
                        /\ d.shops[d.offers[k].shopId].userId = userId
                        /\ query.productId # None =>
                               d.offers[k].productId = query.productId[1]
                        /\ query.shopId # None =>
                               d.offers[k].shopId = query.shopId[1]
                        /\ inWhere(d.offers[k], offersWhere(query, now))} })

\* GET /api/offers/:id
getOffer(d, userId, id) ==
    IF ~findOffer(d, id, userId) THEN Answer(d, 404, <<>>)
    ELSE Answer(d, 200, offerView(d, id))

\* POST /api/offers
postOffer(d, userId, body) ==
    IF createOfferInvalid(body) THEN Answer(d, 400, <<>>)
    ELSE IF ~findProduct(d, body.productId, userId) THEN Answer(d, 400, <<>>)
    ELSE IF ~findShop(d, body.shopId, userId) THEN Answer(d, 400, <<>>)
    ELSE LET id == NewKey(d.offers)
             d1 == [d EXCEPT !.offers[id] =
                       [present |-> TRUE, productId |-> body.productId,
                        shopId |-> body.shopId, offerPrice |-> body.offerPrice,
                        startTime |-> body.startTime, endTime |-> body.endTime]]
         IN  Answer(d1, 201, offerView(d1, id))

\* a check of the date range only when the body has both dates
rangeChecked_bothOnly(body) == body.startTime # None /\ body.endTime # None

\* updateData.startTime || updateData.endTime
rangeChecked(body) == body.startTime # None \/ body.endTime # None

\* PUT /api/offers/:id
putOffer(d, userId, id, body) ==
    IF updateOfferInvalid(body) THEN Answer(d, 400, <<>>)
    ELSE IF ~findOffer(d, id, userId) THEN Answer(d, 404, <<>>)
    ELSE LET existingOffer == d.offers[id]
             newStartTime == IF body.startTime # None THEN body.startTime[1]
                             ELSE existingOffer.startTime
             newEndTime == IF body.endTime # None THEN body.endTime[1]
                           ELSE existingOffer.endTime
             d1 == [d EXCEPT
                       !.offers[id].offerPrice =
                           IF body.offerPrice = None THEN @ ELSE body.offerPrice[1],
                       !.offers[id].startTime =
                           IF body.startTime = None THEN @ ELSE body.startTime[1],
                       !.offers[id].endTime =
                           IF body.endTime = None THEN @ ELSE body.endTime[1]]
         IN  IF rangeChecked(body) /\ newStartTime >= newEndTime
             THEN Answer(d, 400, <<>>)
             ELSE Answer(d1, 200, offerView(d1, id))

\* DELETE /api/offers/:id
deleteOffer(d, userId, id) ==
    IF ~findOffer(d, id, userId) THEN Answer(d, 404, <<>>)
    ELSE Answer([d EXCEPT !.offers[id] = NoRow], 200, <<>>)

(* shopping lists and their items *)

\* createShoppingListSchema: 1 to 100 product ids
createListInvalid(body) == body.productIds = <<>>

\* updateItemSchema: a status, when given, of the enumeration
updateItemInvalid(body) ==
    body.status # None /\ body.status[1] \notin Statuses

\* the item as the answers show it, with its product
itemView(d, i) ==
    [id |-> i, productId |-> d.items[i].productId, status |-> d.items[i].status,
     product |-> [id |-> d.items[i].productId,
                  shopId |-> d.products[d.items[i].productId].shopId]]

itemsOfList(d, l) ==
    {i \in ItemKeys : d.items[i].present /\ d.items[i].shoppingListId = l}

\* GET /api/shopping-lists
listLists(d, userId) ==
    Answer(d, 200,
           { [id |-> l, totalItems |-> Cardinality(itemsOfList(d, l))] :
               l \in {k \in ListKeys : d.lists[k].present /\ d.lists[k].userId = userId} })

\* GET /api/shopping-lists/:id, without the totals
getList(d, userId, id) ==
    IF ~findList(d, id, userId) THEN Answer(d, 404, <<>>)
    ELSE Answer(d, 200,
                [id |-> id, items |-> {itemView(d, i) : i \in itemsOfList(d, id)}])

\* POST /api/shopping-lists
postList(d, userId, body) ==
    LET productIds == body.productIds
        found == {q \in {productIds[k] : k \in 1..Len(productIds)} :
                     findProduct(d, q, userId)}
        id == NewKey(d.lists)
    IN  IF createListInvalid(body) THEN Answer(d, 400, <<>>)
        ELSE IF Cardinality(found) # Len(productIds) THEN Answer(d, 400, <<>>)
        ELSE Answer([d EXCEPT
                        !.lists[id] = [present |-> TRUE, userId |-> userId],
                        !.items = [i \in ItemKeys |->
                                      IF i[1] = id /\ i[2] <= Len(productIds)
                                      THEN [present |-> TRUE, shoppingListId |-> id,
                                            productId |-> productIds[i[2]],
                                            status |-> "pending"]
                                      ELSE d.items[i]]],
                    201, [id |-> id])

\* PUT /api/shopping-lists/:id/items/:itemId
putItem(d, userId, id, itemId, body) ==
    IF updateItemInvalid(body) THEN Answer(d, 400, <<>>)
    ELSE IF ~findItem(d, id, itemId, userId) THEN Answer(d, 404, <<>>)
    ELSE LET d1 == [d EXCEPT !.items[itemId].status =
                       IF body.status = None THEN @ ELSE body.status[1]]
         IN  Answer(d1, 200, itemView(d1, itemId))

\* DELETE /api/shopping-lists/:id
deleteList(d, userId, id) ==
    IF ~findList(d, id, userId) THEN Answer(d, 404, <<>>)
    ELSE Answer(withoutList(d, id), 200, <<>>)

(* users *)

Email1 == "a@example.com"

Email2 == "b@example.com"

\* a text that z.email() rejects
NoEmail == "nobody"

Password1 == <<"s", "e", "c", "r", "e", "t">>

Password2 == <<"h", "i", "d", "d", "e", "n">>

\* bcrypt.hash(password, 10), and bcrypt.compare(password, passwordHash)
bcryptHash(password) == <<"$2a$10$">> \o password

bcryptCompare(password, passwordHash) == passwordHash = bcryptHash(password)

\* registerSchema: an email and a password of at least 6 characters
registerInvalid(body) == body.email = NoEmail \/ Len(body.password) < 6

\* loginSchema: an email and a password of at least 1 character
loginInvalid(body) == body.email = NoEmail \/ Len(body.password) < 1

\* prisma.user.findUnique({ where: { email } }): the ids of the rows found
usersWithEmail(d, email) ==
    {u \in Users : d.users[u].present /\ d.users[u].email = email}

\* POST /api/auth/register
register(d, body) ==
    IF registerInvalid(body) THEN Answer(d, 400, [error |-> "Invalid input"])
    ELSE IF usersWithEmail(d, body.email) # {}
    THEN Answer(d, 400, [error |-> "User already exists"])
    ELSE LET id == CHOOSE u \in Users : d.users[u] = NoRow
         IN  Answer([d EXCEPT !.users[id] =
                        [present |-> TRUE, email |-> body.email,
                         passwordHash |-> bcryptHash(body.password)]],
                    201, [user |-> [id |-> id, email |-> body.email], token |-> id])

\* a login that tells an unknown email from a wrong password
login_userNotFound(d, body) ==
    IF loginInvalid(body) THEN Answer(d, 400, [error |-> "Invalid input"])
    ELSE IF usersWithEmail(d, body.email) = {}
    THEN Answer(d, 404, [error |-> "User not found"])
    ELSE LET id == CHOOSE u \in usersWithEmail(d, body.email) : TRUE
         IN  IF ~bcryptCompare(body.password, d.users[id].passwordHash)
             THEN Answer(d, 401, [error |-> "Invalid credentials"])
             ELSE Answer(d, 200, [user |-> [id |-> id, email |-> body.email],
                                  token |-> id])

\* POST /api/auth/login
login(d, body) ==
    IF loginInvalid(body) THEN Answer(d, 400, [error |-> "Invalid input"])
    ELSE IF usersWithEmail(d, body.email) = {}
    THEN Answer(d, 401, [error |-> "Invalid credentials"])
    ELSE LET id == CHOOSE u \in usersWithEmail(d, body.email) : TRUE
         IN  IF ~bcryptCompare(body.password, d.users[id].passwordHash)
             THEN Answer(d, 401, [error |-> "Invalid credentials"])
             ELSE Answer(d, 200, [user |-> [id |-> id, email |-> body.email],
                                  token |-> id])

\* the tables after two users have registered: u1 and u2
\* GET /api/auth/account
getAccount(d, userId) ==
    IF ~d.users[userId].present THEN Answer(d, 404, [error |-> "User not found"])
    ELSE Answer(d, 200, [user |-> [id |-> userId, email |-> d.users[userId].email]])

\* prisma.user.delete with ON DELETE CASCADE: the user, the user's shops,
\* products and lists, and what refers to them
withoutUser(d, userId) ==
    LET shopsGone == {s \in ShopKeys : d.shops[s].present /\ d.shops[s].userId = userId}
        productsGone == {q \in ProductKeys :
                            /\ d.products[q].present
                            /\ \/ d.products[q].userId = userId
                               \/ d.products[q].shopId \in shopsGone}
        listsGone == {l \in ListKeys : d.lists[l].present /\ d.lists[l].userId = userId}
    IN  [users |-> [d.users EXCEPT ![userId] = GoneRow],
         shops |-> [s \in ShopKeys |-> IF s \in shopsGone THEN NoRow ELSE d.shops[s]],
         products |-> [q \in ProductKeys |->
                          IF q \in productsGone THEN NoRow ELSE d.products[q]],
         offers |-> [o \in OfferKeys |->
                        IF /\ d.offers[o].present
                           /\ \/ d.offers[o].productId \in productsGone
                              \/ d.offers[o].shopId \in shopsGone
                        THEN NoRow ELSE d.offers[o]],
         lists |-> [l \in ListKeys |-> IF l \in listsGone THEN NoRow ELSE d.lists[l]],
         items |-> [i \in ItemKeys |->
                       IF /\ d.items[i].present
                          /\ \/ d.items[i].shoppingListId \in listsGone
                             \/ d.items[i].productId \in productsGone
                       THEN NoRow ELSE d.items[i]]]

RegisteredDb ==
    register(register(EmptyDb, [email |-> Email1, password |-> Password1]).db,
             [email |-> Email2, password |-> Password2]).db

(* the requests *)

\* the database after each user has created a shop and a product of it:
\* shop 1 and product 1 are u1's, shop 2 and product 2 are u2's
StockedDb ==
    LET d1 == postShop(RegisteredDb, "u1", [name |-> Some("A")]).db
        d2 == postProduct(d1, "u1", [name |-> Some("A"), shopId |-> Some(1)]).db
        d3 == postShop(d2, "u2", [name |-> Some("A")]).db
    IN  postProduct(d3, "u2", [name |-> Some("A"), shopId |-> Some(2)]).db

\* then u1 has created an offer and a shopping list
SeededDb ==
    LET d1 == postOffer(StockedDb, "u1",
                        [productId |-> 1, shopId |-> 1, offerPrice |-> 199,
                         startTime |-> 1, endTime |-> 2]).db
    IN  postList(d1, "u1", [productIds |-> <<1>>]).db

\* then u2 has created an offer and a shopping list
SharedDb ==
    LET d1 == postOffer(SeededDb, "u2",
                        [productId |-> 2, shopId |-> 2, offerPrice |-> 199,
                         startTime |-> 1, endTime |-> 2]).db
    IN  postList(d1, "u2", [productIds |-> <<2>>]).db

NoRequest ==
    [user |-> "", method |-> "", kind |-> "", id |-> 0, itemId |-> <<0, 0>>,
     invalid |-> FALSE, startTime |-> None, endTime |-> None, status |-> 0,
     response |-> {}, query |-> None, now |-> 0, productIds |-> <<>>,
     body |-> None]

ShopBodies == [name : {None, Some(""), Some("B")}]

ProductBodies == [name : {Some(""), Some("B")}, shopId : {None, Some(1), Some(2)}]

OfferBodies ==
    [productId : ProductKeys, shopId : ShopKeys, offerPrice : {0, 199},
     startTime : {1}, endTime : {2}]

OfferUpdates ==
    [offerPrice : {None, Some(0), Some(299)}, startTime : {None},
     endTime : {None, Some(MaxTime)}]

NoFilter == [productId |-> None, shopId |-> None, active |-> None,
             startDate |-> None, endDate |-> None]

OfferQueries == { NoFilter,
                  [NoFilter EXCEPT !.productId = Some(1)],
                  [NoFilter EXCEPT !.shopId = Some(2)] }

ListBodies == [productIds : {<<>>, <<1>>, <<2>>, <<1, 2>>, <<1, 1>>}]

ItemBodies == [status : {Some("bought"), Some("bogus")}]

\* the request was answered: the database and the record of the request, with
\* the dates of its body when it has them
Recorded(userId, method, kind, id, itemId, invalid, startTime, endTime, ans) ==
    /\ db' = ans.db
    /\ last' = [user |-> userId, method |-> method, kind |-> kind, id |-> id,
                itemId |-> itemId, invalid |-> invalid,
                startTime |-> startTime, endTime |-> endTime, status |-> ans.status,
                response |-> IF method = "LIST" THEN ans.body ELSE {},
                query |-> None, now |-> 0, productIds |-> <<>>, body |-> None]
    /\ UNCHANGED outsideOwner

Handled(userId, method, kind, id, itemId, invalid, ans) ==
    Recorded(userId, method, kind, id, itemId, invalid, None, None, ans)

\* GET /api/offers at the time now
ListOffersBy(u, query, now) ==
    \E ans \in {listOffers(db, u, query, now)} :
        /\ db' = ans.db
        /\ last' = [NoRequest EXCEPT !.user = u, !.method = "LIST", !.kind = "offer",
                                     !.status = ans.status, !.response = ans.body,
                                     !.query = Some(query), !.now = now]
        /\ UNCHANGED outsideOwner

\* POST /api/shopping-lists
PostListBy(u, body) ==
    /\ HasFreeKey(db.lists)
    /\ \E ans \in {postList(db, u, body)} :
           /\ db' = ans.db
           /\ last' = [NoRequest EXCEPT !.user = u, !.method = "POST", !.kind = "list",
                                        !.invalid = createListInvalid(body),
                                        !.status = ans.status,
                                        !.productIds = body.productIds]
           /\ UNCHANGED outsideOwner

PostOfferBy(u, body) ==
    /\ HasFreeKey(db.offers)
    /\ \E ans \in {postOffer(db, u, body)} :
           Recorded(u, "POST", "offer", 0, <<0, 0>>, createOfferInvalid(body),
                    Some(body.startTime), Some(body.endTime), ans)

PutOfferBy(u, id, body) ==
    \E ans \in {putOffer(db, u, id, body)} :
        Recorded(u, "PUT", "offer", id, <<0, 0>>, updateOfferInvalid(body),
                 body.startTime, body.endTime, ans)

OwnerInit ==
    /\ db \in {RegisteredDb, StockedDb, SeededDb, SharedDb}
    /\ last = NoRequest
    /\ requests = 0
    /\ CalcIdle
    /\ ProductsIdle
    /\ AggIdle
    /\ AgainIdle

\* the routes of the resources, for a request with a token of the user u
Routes(u) ==
    \/ \E ans \in {listShops(db, u)} :
          Handled(u, "LIST", "shop", 0, <<0, 0>>, FALSE, ans)
    \/ \E id \in ShopKeys : \E ans \in {getShop(db, u, id)} :
          Handled(u, "GET", "shop", id, <<0, 0>>, FALSE, ans)
    \/ /\ HasFreeKey(db.shops)
       /\ \E body \in ShopBodies : \E ans \in {postShop(db, u, body)} :
             Handled(u, "POST", "shop", 0, <<0, 0>>,
                     shopBodyInvalid(body, TRUE), ans)
    \/ \E id \in ShopKeys, body \in ShopBodies :
          \E ans \in {putShop(db, u, id, body)} :
              Handled(u, "PUT", "shop", id, <<0, 0>>,
                      shopBodyInvalid(body, FALSE), ans)
    \/ \E id \in ShopKeys : \E ans \in {deleteShop(db, u, id)} :
          Handled(u, "DELETE", "shop", id, <<0, 0>>, FALSE, ans)
    \/ \E ans \in {listProducts(db, u)} :
          Handled(u, "LIST", "product", 0, <<0, 0>>, FALSE, ans)
    \/ \E id \in ProductKeys : \E ans \in {getProduct(db, u, id)} :
          Handled(u, "GET", "product", id, <<0, 0>>, FALSE, ans)
    \/ /\ HasFreeKey(db.products)
       /\ \E body \in ProductBodies : \E ans \in {postProduct(db, u, body)} :
             Handled(u, "POST", "product", 0, <<0, 0>>,
                     productBodyInvalid(body, TRUE), ans)
    \/ \E id \in ProductKeys, body \in ProductBodies :
          \E ans \in {putProduct(db, u, id, body)} :
              Handled(u, "PUT", "product", id, <<0, 0>>,
                      productBodyInvalid(body, FALSE), ans)
    \/ \E id \in ProductKeys : \E ans \in {deleteProduct(db, u, id)} :
          Handled(u, "DELETE", "product", id, <<0, 0>>, FALSE, ans)
    \/ \E query \in OfferQueries : ListOffersBy(u, query, 1)
    \/ \E id \in OfferKeys : \E ans \in {getOffer(db, u, id)} :
          Handled(u, "GET", "offer", id, <<0, 0>>, FALSE, ans)
    \/ \E body \in OfferBodies : PostOfferBy(u, body)
    \/ \E id \in OfferKeys, body \in OfferUpdates : PutOfferBy(u, id, body)
    \/ \E id \in OfferKeys : \E ans \in {deleteOffer(db, u, id)} :
          Handled(u, "DELETE", "offer", id, <<0, 0>>, FALSE, ans)
    \/ \E ans \in {listLists(db, u)} :
          Handled(u, "LIST", "list", 0, <<0, 0>>, FALSE, ans)
    \/ \E id \in ListKeys : \E ans \in {getList(db, u, id)} :
          Handled(u, "GET", "list", id, <<0, 0>>, FALSE, ans)
    \/ \E body \in ListBodies : PostListBy(u, body)
    \/ \E id \in ListKeys, itemId \in ItemKeys, body \in ItemBodies :
          \E ans \in {putItem(db, u, id, itemId, body)} :
              Handled(u, "PUT", "item", id, itemId, updateItemInvalid(body), ans)
    \/ \E id \in ListKeys : \E ans \in {deleteList(db, u, id)} :
          Handled(u, "DELETE", "list", id, <<0, 0>>, FALSE, ans)

OwnerNext ==
    /\ requests < MaxRequests
    /\ requests' = requests + 1
    /\ \E u \in Users : Routes(u)

OwnerSpec == OwnerInit /\ [][OwnerNext]_vars

(* the offers' dates: POST and PUT of offers with every pair of dates *)

DatedOffers ==
    [productId : ProductKeys, shopId : ShopKeys, offerPrice : {199},
     startTime : 1..MaxTime, endTime : 1..MaxTime]

Dates == {None} \cup {Some(time) : time \in 1..MaxTime}

DatedUpdates == [offerPrice : {None, Some(299)}, startTime : Dates, endTime : Dates]

OfferInit ==
    /\ db = StockedDb
    /\ last = NoRequest
    /\ requests = 0
    /\ CalcIdle
    /\ ProductsIdle
    /\ AggIdle
    /\ AgainIdle

OfferNext ==
    /\ UNCHANGED requests
    /\ \E u \in Users :
          \/ \E body \in DatedOffers : PostOfferBy(u, body)
          \/ \E id \in OfferKeys, body \in DatedUpdates : PutOfferBy(u, id, body)

OfferSpec == OfferInit /\ [][OfferNext]_vars

-----------------------------------------------------------------------------
(* Claims about the owners of the resources *)

\* the resource a request by id names is stored in d
Stored(d, r) ==
    CASE r.kind = "shop" -> d.shops[r.id].present
      [] r.kind = "product" -> d.products[r.id].present
      [] r.kind = "offer" -> d.offers[r.id].present
      [] r.kind = "list" -> d.lists[r.id].present
      [] r.kind = "item" -> d.items[r.itemId].present

\* the user whose resource it is: an offer is the owner's of its product, an
\* item the owner's of its list
OwnerOf(d, r) ==
    CASE r.kind = "shop" -> d.shops[r.id].userId
      [] r.kind = "product" -> d.products[r.id].userId
      [] r.kind = "offer" -> d.products[d.offers[r.id].productId].userId
      [] r.kind = "list" -> d.lists[r.id].userId
      [] r.kind = "item" -> d.lists[d.items[r.itemId].shoppingListId].userId

\* r is a GET, PUT or DELETE by id of a resource stored in d by a user who
\* does not own it
ByStranger(d, r) ==
    /\ r.method \in {"GET", "PUT", "DELETE"}
    /\ Stored(d, r)
    /\ OwnerOf(d, r) # r.user

\* C18 as stated: every GET, PUT or DELETE by id of a resource by a user who
\* does not own it is answered 404 and leaves the database as it was.
C18_StrangerGets404 ==
    [][ByStranger(db, last') => (last'.status = 404 /\ db' = db)]_vars

\* C18, amended: a GET, a DELETE or a PUT with a body that passes the route's
\* schema, by id of a resource by a user who does not own it, is answered 404;
\* a PUT with a body that fails the schema is answered 400; in both cases the
\* database is left as it was.
C18_StrangerChangesNothing ==
    [][ByStranger(db, last') =>
          /\ db' = db
          /\ last'.status = IF last'.method = "PUT" /\ last'.invalid THEN 400 ELSE 404]_vars

\* a user has sent a PUT with a valid body for an item of another user's list
C18_Witness ==
    /\ last.method = "PUT" /\ last.kind = "item" /\ ~last.invalid
    /\ ByStranger(db, last)
    /\ last.status = 404

\* the entry of a list response is a resource of the user, and so is the
\* resource shown inside it
OwnEntry(d, kind, entry, userId) ==
    CASE kind = "shop" -> d.shops[entry.id].userId = userId
      [] kind = "product" ->
             /\ d.products[entry.id].userId = userId
             /\ d.shops[entry.shop.id].userId = userId
      [] kind = "offer" ->
             /\ d.products[entry.product.id].userId = userId
             /\ d.shops[entry.shop.id].userId = userId
      [] kind = "list" -> d.lists[entry.id].userId = userId

\* the responses of the four list endpoints for a user
ListsFor(d, userId) ==
    [shops |-> listShops(d, userId).body,
     products |-> listProducts(d, userId).body,
     offers |-> [query \in OfferQueries |-> listOffers(d, userId, query, 1).body],
     lists |-> listLists(d, userId).body]

\* C19: the response of a list endpoint has only resources of the user who
\* asked, and no request of a user changes the response of a list endpoint
\* for a different user.
C19_ListsAreOwn ==
    [][/\ last'.method = "LIST" =>
              \A entry \in last'.response :
                  OwnEntry(db', last'.kind, entry, last'.user)
       /\ \A u \in Users \ {last'.user} : ListsFor(db', u) = ListsFor(db, u)]_vars

\* a user with offers has listed them while another user has an offer too
C19_Witness ==
    /\ last.method = "LIST" /\ last.kind = "offer"
    /\ last.response # {}
    /\ \E o \in OfferKeys :
           db.offers[o].present /\ db.products[db.offers[o].productId].userId # last.user

-----------------------------------------------------------------------------
(* Claims about the dates of the offers *)

\* the dates an update would leave in the offer: those of the body, else the
\* stored ones
MergedStart(d, r) == IF r.startTime # None THEN r.startTime[1] ELSE d.offers[r.id].startTime

MergedEnd(d, r) == IF r.endTime # None THEN r.endTime[1] ELSE d.offers[r.id].endTime

\* r is a create with startTime >= endTime, or an update of an offer of the
\* requesting user whose merged dates have startTime >= endTime
BadDates(d, r) ==
    /\ r.kind = "offer"
    /\ \/ r.method = "POST" /\ r.startTime[1] >= r.endTime[1]
       \/ /\ r.method = "PUT"
          /\ findOffer(d, r.id, r.user)
          /\ r.startTime # None \/ r.endTime # None
          /\ MergedStart(d, r) >= MergedEnd(d, r)

\* C20: after every POST and PUT of offers each stored offer has startTime
\* before endTime; a create, or an update of one's own offer, whose (merged)
\* dates have startTime >= endTime is answered 400 and changes nothing.
C20_OffersStartBeforeEnd ==
    [][/\ \A o \in OfferKeys :
              db'.offers[o].present => db'.offers[o].startTime < db'.offers[o].endTime
       /\ BadDates(db, last') => (last'.status = 400 /\ db' = db)]_vars

\* an update with only a startTime that is not before the stored endTime has
\* been rejected
C20_Witness ==
    /\ last.kind = "offer" /\ last.method = "PUT"
    /\ last.startTime # None /\ last.endTime = None
    /\ BadDates(db, last)
    /\ last.status = 400

-----------------------------------------------------------------------------
(* The filters of GET /api/offers: one request with every combination of    *)
(* the filters, on tables that hold offers of both users.                   *)

\* the times of the clock and of startDate and endDate: from before the
\* first date of an offer to after the last one
FilterTimes == 0..(MaxTime + 1)

FilterDates == {None} \cup {Some(time) : time \in FilterTimes}

FilterQueries ==
    [productId : {None, Some(1)}, shopId : {None, Some(1)},
     active : {None, Some("true"), Some("false")},
     startDate : FilterDates, endDate : FilterDates]

FilterInit ==
    /\ \E body \in DatedOffers :
           db \in {SeededDb, SharedDb, postOffer(SeededDb, "u1", body).db}
    /\ last = NoRequest
    /\ requests = 0
    /\ CalcIdle
    /\ ProductsIdle
    /\ AggIdle
    /\ AgainIdle

FilterNext ==
    /\ requests = 0
    /\ requests' = 1
    /\ \E u \in Users, query \in FilterQueries, now \in FilterTimes :
           ListOffersBy(u, query, now)

FilterSpec == FilterInit /\ [][FilterNext]_vars

\* C21: with active=true every offer of the response has startTime <= now <=
\* endTime, and with active=false every offer has startTime > now or
\* endTime < now, whatever the other filters of the request.
C21_ActiveFilter ==
    (last.method = "LIST" /\ last.kind = "offer" /\ last.query # None) =>
        \A offer \in last.response :
            /\ last.query[1].active = Some("true") =>
                   (offer.startTime <= last.now /\ last.now <= offer.endTime)
            /\ last.query[1].active = Some("false") =>
                   (offer.startTime > last.now \/ offer.endTime < last.now)

-----------------------------------------------------------------------------
(* Claims about the creation of shopping lists *)

\* between d and e one list of the user was created, with one pending item
\* for each entry of productIds and nothing else changed
ListCreated(d, e, userId, productIds) ==
    \E l \in ListKeys :
        /\ ~d.lists[l].present
        /\ e.lists = [d.lists EXCEPT ![l] = [present |-> TRUE, userId |-> userId]]
        /\ Cardinality(itemsOfList(e, l)) = Len(productIds)
        /\ \A k \in 1..Len(productIds) :
               \E i \in itemsOfList(e, l) :
                   e.items[i].productId = productIds[k] /\ e.items[i].status = "pending"
        /\ \A i \in ItemKeys : i[1] # l => e.items[i] = d.items[i]
        /\ e.shops = d.shops /\ e.products = d.products /\ e.offers = d.offers

\* C22: a POST /api/shopping-lists with a valid body is answered 201 and
\* creates one list with one pending item per entry of productIds when every
\* id of productIds is a product of the requester, and is answered 400 and
\* creates nothing when some id is not.
C22_ListCreated ==
    [][(last'.kind = "list" /\ last'.method = "POST" /\ ~last'.invalid) =>
          IF \A k \in 1..Len(last'.productIds) :
                 findProduct(db, last'.productIds[k], last'.user)
          THEN last'.status = 201
                   /\ ListCreated(db, db', last'.user, last'.productIds)
          ELSE last'.status = 400 /\ db' = db]_vars

-----------------------------------------------------------------------------
(* authenticateToken.  A header is a string made of pieces: a space, or a   *)
(* text without spaces, which is a word or a token: "jwt" is a token signed *)
(* for u1 that has not expired, "old" one that has expired, "junk" no token.*)

MaxPieces == 3

Pieces == {" ", "Bearer", "Basic", "jwt", "old", "junk"}

\* the Authorization header: absent, or a string of up to MaxPieces pieces
AuthHeaders ==
    {None} \cup {Some(h) : h \in UNION {[1..n -> Pieces] : n \in 0..MaxPieces}}

\* s.split(' ')
RECURSIVE split(_)
split(s) ==
    IF \A k \in 1..Len(s) : s[k] # " " THEN <<s>>
    ELSE LET i == CHOOSE k \in 1..Len(s) :
                      s[k] = " " /\ \A j \in 1..(k - 1) : s[j] # " "
         IN  <<SubSeq(s, 1, i - 1)>> \o split(SubSeq(s, i + 1, Len(s)))

\* authHeader && authHeader.split(' ')[1]: undefined (None) or a string
tokenOf(authHeader) ==
    IF authHeader = None THEN None
    ELSE IF authHeader[1] = <<>> THEN Some(<<>>)
    ELSE IF Len(split(authHeader[1])) < 2 THEN None
    ELSE Some(split(authHeader[1])[2])

\* jwt.verify(token, secret) does not throw
verifies(token) == token = <<"jwt">>

\* authenticateToken: the answer of the middleware, or next() with req.userId
authenticateToken(headers) ==
    LET token == tokenOf(headers.authorization)
    IN  IF token = None \/ token = Some(<<>>)
        THEN [NoRequest EXCEPT !.kind = "auth", !.status = 401]
        ELSE IF verifies(token[1])
        THEN [NoRequest EXCEPT !.kind = "auth", !.method = "next", !.user = "u1"]
        ELSE [NoRequest EXCEPT !.kind = "auth", !.status = 403]

AuthInit ==
    /\ request \in [authorization : AuthHeaders]
    /\ last = NoRequest
    /\ db = <<>> /\ requests = 0
    /\ products = <<>> /\ httpStatus = 0
    /\ CalcIdle
    /\ AggIdle
    /\ AgainIdle

Authenticate ==
    /\ last = NoRequest
    /\ last' = authenticateToken(request)
    /\ UNCHANGED <<outsideOwner, db, requests>>

AuthNext == Authenticate

AuthSpec == AuthInit /\ [][AuthNext]_vars

\* the header is 'Bearer <token>'
BearerForm(authHeader) ==
    /\ authHeader # None
    /\ Len(authHeader[1]) = 3
    /\ authHeader[1][1] = "Bearer" /\ authHeader[1][2] = " " /\ authHeader[1][3] # " "

\* C23: the handler is reached only when the header is 'Bearer <token>' and
\* the token verifies; a missing header and a header without the Bearer
\* prefix are answered 401, a 'Bearer <token>' header whose token does not
\* verify is answered 403.
C23_BearerOnly ==
    last.kind = "auth" =>
        /\ last.method = "next" =>
               (BearerForm(request.authorization)
                    /\ verifies(<<request.authorization[1][3]>>))
        /\ ~BearerForm(request.authorization) => last.status = 401
        /\ (BearerForm(request.authorization)
                /\ ~verifies(<<request.authorization[1][3]>>)) => last.status = 403

-----------------------------------------------------------------------------
(* Registration and login *)

RegisterBodies ==
    [email : {Email1, Email2, NoEmail}, password : {<<"p">>, Password1, Password2}]

LoginBodies ==
    [email : {Email1, Email2, NoEmail}, password : {<<>>, Password1, Password2}]

\* POST /api/auth/register
Register(body) ==
    /\ \E u \in Users : db.users[u] = NoRow
    /\ \E ans \in {register(db, body)} :
        /\ db' = ans.db
        /\ last' = [NoRequest EXCEPT !.method = "POST", !.kind = "register",
                                     !.invalid = registerInvalid(body),
                                     !.status = ans.status, !.response = {ans.body},
                                     !.body = Some(body)]
        /\ UNCHANGED outsideOwner

\* POST /api/auth/login
Login(body) ==
    \E ans \in {login(db, body)} :
        /\ db' = ans.db
        /\ last' = [NoRequest EXCEPT !.method = "POST", !.kind = "login",
                                     !.invalid = loginInvalid(body),
                                     !.status = ans.status, !.response = {ans.body},
                                     !.body = Some(body)]
        /\ UNCHANGED outsideOwner

LoginInit ==
    /\ db = EmptyDb
    /\ last = NoRequest
    /\ requests = 0
    /\ CalcIdle
    /\ ProductsIdle
    /\ AggIdle
    /\ AgainIdle

LoginNext ==
    /\ UNCHANGED requests
    /\ \/ \E body \in RegisterBodies : Register(body)
       \/ \E body \in LoginBodies : Login(body)

LoginSpec == LoginInit /\ [][LoginNext]_vars

\* the body passes loginSchema and names an account with another password
WrongPassword(d, body) ==
    /\ ~loginInvalid(body)
    /\ \E u \in usersWithEmail(d, body.email) :
           ~bcryptCompare(body.password, d.users[u].passwordHash)

\* the body passes loginSchema and names an email without an account
NoAccount(d, body) == ~loginInvalid(body) /\ usersWithEmail(d, body.email) = {}

\* C24: a login with a wrong password for an account and a login with an
\* email that has no account are answered with the same status, 401, and the
\* same body.
C24_LoginTellsNothing ==
    [][(last'.kind = "login"
            /\ (WrongPassword(db, last'.body[1]) \/ NoAccount(db, last'.body[1]))) =>
          /\ last'.status = 401
          /\ db' = db
          /\ \A other \in LoginBodies :
                 (WrongPassword(db, other) \/ NoAccount(db, other)) =>
                     /\ login(db, other).status = last'.status
                     /\ {login(db, other).body} = last'.response]_vars

\* a login with an email without an account has been answered while another
\* email has an account
C24_Witness ==
    /\ last.kind = "login" /\ last.status = 401
    /\ NoAccount(db, last.body[1])
    /\ \E other \in LoginBodies : WrongPassword(db, other)

-----------------------------------------------------------------------------
(* Users that are deleted while their tokens still verify *)

\* GET /api/auth/account with a token of the user u
GetAccountBy(u) ==
    \E ans \in {getAccount(db, u)} :
        /\ db' = ans.db
        /\ last' = [NoRequest EXCEPT !.user = u, !.method = "GET", !.kind = "account",
                                     !.status = ans.status]
        /\ UNCHANGED outsideOwner

\* prisma.user.delete({ where: { id } })
DeleteUser(u) ==
    /\ db.users[u].present
    /\ db' = withoutUser(db, u)
    /\ last' = [NoRequest EXCEPT !.user = u, !.method = "delete", !.kind = "prisma"]
    /\ UNCHANGED outsideOwner

AccountInit ==
    /\ db \in {EmptyDb, RegisteredDb, StockedDb, SeededDb, SharedDb}
    /\ last = NoRequest
    /\ requests = 0
    /\ CalcIdle
    /\ ProductsIdle
    /\ AggIdle
    /\ AgainIdle

AccountNext ==
    /\ requests < MaxRequests
    /\ requests' = requests + 1
    /\ \/ \E body \in RegisterBodies : Register(body)
       \/ \E u \in Users : DeleteUser(u)
       \/ \E u \in Users : db.users[u] # NoRow /\ GetAccountBy(u)
       \/ \E u \in Users : db.users[u] # NoRow /\ Routes(u)

AccountSpec == AccountInit /\ [][AccountNext]_vars

\* C25: a request with the token of a user who has been deleted gets no
\* success response on any route behind authenticateToken, and writes nothing.
C25_DeletedUserRejected ==
    [][(last'.kind \in {"account", "shop", "product", "offer", "list", "item"}
            /\ db.users[last'.user] = GoneRow) =>
          (last'.status \notin {200, 201} /\ db' = db)]_vars

\* every item is of a stored list and a stored product, every offer of a
\* stored product and a stored shop
NothingDangles(d) ==
    /\ \A i \in ItemKeys :
           d.items[i].present =>
               /\ d.lists[d.items[i].shoppingListId].present
               /\ d.products[d.items[i].productId].present
    /\ \A o \in OfferKeys :
           d.offers[o].present =>
               /\ d.products[d.offers[o].productId].present
               /\ d.shops[d.offers[o].shopId].present

\* C26: a DELETE of a shopping list that is answered 200 removes the list and
\* every item of it, and after every creation and deletion of users, shops,
\* products, lists and offers no item and no offer refers to a list, product
\* or shop that is not stored.
C26_CascadesLeaveNothing ==
    /\ []NothingDangles(db)
    /\ [][(last'.kind = "list" /\ last'.method = "DELETE" /\ last'.status = 200) =>
             /\ db.lists[last'.id].present
             /\ ~db'.lists[last'.id].present
             /\ \A i \in ItemKeys :
                    db'.items[i].present => db'.items[i].shoppingListId # last'.id]_vars

\* a list with an item has been deleted
C26_Witness ==
    /\ last.kind = "list" /\ last.method = "DELETE" /\ last.status = 200
    /\ ~db.lists[last.id].present
    /\ \A i \in ItemKeys : ~db.items[i].present
    /\ \E q \in ProductKeys : db.products[q].present

-----------------------------------------------------------------------------
(* Two PUT /api/products/:id on the same product that run at the same time: *)
(* each handler reads the row (findFirst), computes, and writes (update),   *)
(* and the steps of the two interleave.                                     *)

Puts == {"sizePut", "pricePut"}

\* the product both requests name
RacedId == 1

\* the two requests before they start: one has only a size, the other only
\* a price
RacingPuts ==
    { [q \in Puts |->
          [pc |-> "read",
           size |-> IF q = "sizePut" THEN sz ELSE UndefinedV,
           price |-> IF q = "pricePut" THEN p ELSE AbsentV,
           existingProduct |-> NoProduct, status |-> 0]] :
        sz \in BodySizes \ {UndefinedV},
        p \in {NumberV(Fin(5, 2)), NumberV(Fin(6, 5))} }

RaceInit ==
    /\ products = [id \in ProductIds |-> NoProduct]
    /\ httpStatus = 0
    /\ request \in RacingPuts
    /\ CalcIdle
    /\ AggIdle
    /\ AgainIdle
    /\ OwnerIdle

\* prisma.product.findFirst of the handler of q, and the 404 when it finds
\* nothing
ReadProduct(q) ==
    /\ request[q].pc = "read"
    /\ request' = [request EXCEPT ![q] =
           IF products[RacedId].present
           THEN [@ EXCEPT !.pc = "write", !.existingProduct = products[RacedId]]
           ELSE [@ EXCEPT !.pc = "done", !.status = 404]]
    /\ UNCHANGED <<products, httpStatus, outsideProducts>>

\* the recalculation from the row that was read, and prisma.product.update
\* with the fields of updateData
WriteProduct(q) ==
    /\ request[q].pc = "write"
    /\ \E r \in {request[q]} :
       \E newPpu \in {updatePricePerUnit(r.existingProduct, r.size, r.price, AbsentV)} :
       \E ppuW \in {IF newPpu.t = "null" THEN Null ELSE newPpu.v} :
          IF ~fitsDecimal(ppuW)
          THEN /\ request' = [request EXCEPT ![q].pc = "done", ![q].status = 500]
               /\ UNCHANGED products
          ELSE /\ request' = [request EXCEPT ![q].pc = "done", ![q].status = 200]
               /\ products' = [products EXCEPT
                      ![RacedId].size =
                          IF r.size.t = "undefined" THEN @
                          ELSE IF r.size.t = "null" THEN NullV ELSE r.size,
                      ![RacedId].price =
                          IF r.price.t = "undefined" THEN @
                          ELSE toDecimal(zodPrice(r.price)),
                      ![RacedId].pricePerUnit = toDecimal(ppuW)]
    /\ UNCHANGED <<httpStatus, outsideProducts>>

RaceNext ==
    \/ \E sz \in PostedSizes, p \in {NumberV(Fin(5, 2)), NumberV(Fin(6, 5))} :
          PostProduct(sz, p) /\ UNCHANGED request
    \/ \E q \in Puts : ReadProduct(q)
    \/ \E q \in Puts : WriteProduct(q)

RaceSpec == RaceInit /\ [][RaceNext]_vars

\* C27: when the two requests have both been answered 200, the stored
\* pricePerUnit is calculatePricePerUnit of the stored size and price.
C27_RacingPutsRecalculate ==
    (\A q \in Puts : request[q].pc = "done" /\ request[q].status = 200) =>
        products[RacedId].pricePerUnit =
            calculatePricePerUnit(products[RacedId].size,
                                  DecimalV(products[RacedId].price))

-----------------------------------------------------------------------------
(* Two PUT /api/offers/:id on the same offer that run at the same time:     *)
(* each handler reads the row (findFirst), validates the merged dates, and  *)
(* writes (update), and the steps of the two interleave.                    *)

OfferPuts == {"startPut", "endPut"}

\* the offer both requests name: the first offer of u1
RacedOffer == 1

RaceTimes == 1..(MaxTime + 1)

\* the two requests before they start: one has only a startTime, the other
\* only an endTime
RacingOfferPuts ==
    { [q \in OfferPuts |->
          [pc |-> "read",
           body |-> [offerPrice |-> None,
                     startTime |-> IF q = "startPut" THEN Some(s) ELSE None,
                     endTime |-> IF q = "endPut" THEN Some(e) ELSE None],
           existingOffer |-> NoRow, status |-> 0]] :
        s \in RaceTimes, e \in RaceTimes }

OfferRaceInit ==
    /\ \E s \in RaceTimes, e \in RaceTimes :
           s < e /\
           db = postOffer(StockedDb, "u1",
                          [productId |-> 1, shopId |-> 1, offerPrice |-> 199,
                           startTime |-> s, endTime |-> e]).db
    /\ request \in RacingOfferPuts
    /\ last = NoRequest
    /\ requests = 0
    /\ products = <<>> /\ httpStatus = 0
    /\ CalcIdle
    /\ AggIdle
    /\ AgainIdle

\* prisma.offer.findFirst of the handler of q
ReadOffer(q) ==
    /\ request[q].pc = "read"
    /\ request' = [request EXCEPT ![q] =
           IF findOffer(db, RacedOffer, "u1")
           THEN [@ EXCEPT !.pc = "validate", !.existingOffer = db.offers[RacedOffer]]
           ELSE [@ EXCEPT !.pc = "done", !.status = 404]]
    /\ UNCHANGED <<calcVars, productVars, aggVars, againVars, ownerVars>>

\* the check of the dates of the body merged with those of the row read
ValidateOffer(q) ==
    /\ request[q].pc = "validate"
    /\ LET body == request[q].body
           existingOffer == request[q].existingOffer
           newStartTime == IF body.startTime # None THEN body.startTime[1]
                           ELSE existingOffer.startTime
           newEndTime == IF body.endTime # None THEN body.endTime[1]
                         ELSE existingOffer.endTime
       IN  request' = [request EXCEPT ![q] =
               IF rangeChecked(body) /\ newStartTime >= newEndTime
               THEN [@ EXCEPT !.pc = "done", !.status = 400]
               ELSE [@ EXCEPT !.pc = "write"]]
    /\ UNCHANGED <<calcVars, productVars, aggVars, againVars, ownerVars>>

\* prisma.offer.update with the fields of the body
WriteOffer(q) ==
    /\ request[q].pc = "write"
    /\ LET body == request[q].body
       IN  db' = [db EXCEPT
                     !.offers[RacedOffer].startTime =
                         IF body.startTime = None THEN @ ELSE body.startTime[1],
                     !.offers[RacedOffer].endTime =
                         IF body.endTime = None THEN @ ELSE body.endTime[1]]
    /\ request' = [request EXCEPT ![q].pc = "done", ![q].status = 200]
    /\ UNCHANGED <<calcVars, productVars, aggVars, againVars, last, requests>>

OfferRaceNext ==
    \/ \E q \in OfferPuts : ReadOffer(q)
    \/ \E q \in OfferPuts : ValidateOffer(q)
    \/ \E q \in OfferPuts : WriteOffer(q)

OfferRaceSpec == OfferRaceInit /\ [][OfferRaceNext]_vars

\* C28: when the two requests have both completed, the stored offer has
\* startTime before endTime.
C28_RacingPutsKeepRange ==
    (\A q \in OfferPuts : request[q].pc = "done" /\ request[q].status \in {200, 400}) =>
        db.offers[RacedOffer].startTime < db.offers[RacedOffer].endTime

-----------------------------------------------------------------------------
(* Claims about the totals of the groups *)

\* the number has at most 2 decimals
TwoDecimals(x) == x.k = "fin" /\ (100 * x.n) % x.d = 0

\* every product price and every actual price of the list has at most 2
\* decimals
PricesInCents(its) ==
    \A k \in 1..Len(its) :
        /\ TwoDecimals(its[k].product.price.v)
        /\ its[k].actualPrice.t # "null" => TwoDecimals(its[k].actualPrice.v)

\* the sum of the expectedTotal (kind "expected") or actualTotal (kind
\* "actual") of the first k groups
RECURSIVE SumOfGroups(_, _, _)
SumOfGroups(groups, k, kind) ==
    IF k = 0 THEN Zero
    ELSE NumAdd(SumOfGroups(groups, k - 1, kind),
                IF kind = "expected" THEN groups[k].expectedTotal
                ELSE groups[k].actualTotal)

\* C29: when every price has at most 2 decimals, overallExpectedTotal is the
\* sum of the groups' expectedTotal and overallActualTotal the sum of the
\* groups' actualTotal.
C29_OverallIsSumOfGroups ==
    (responded /\ PricesInCents(items)) =>
        /\ response.overallExpectedTotal
               = SumOfGroups(response.itemsByShop, Len(response.itemsByShop), "expected")
        /\ response.overallActualTotal
               = SumOfGroups(response.itemsByShop, Len(response.itemsByShop), "actual")

\* a list with bought items of two shops has been aggregated
C29_Witness ==
    /\ responded /\ PricesInCents(items)
    /\ Len(response.itemsByShop) = 2
    /\ \A k \in 1..Len(items) : items[k].status = "bought"
    /\ response.overallActualTotal # Zero

-----------------------------------------------------------------------------
(* Claims about the owners of a product's shop and of an offer's product and *)
(* shop                                                                      *)

\* each product's shop is the product's owner's, and each offer's product and
\* shop are one same user's
OwnersAgree(d) ==
    /\ \A q \in ProductKeys :
           d.products[q].present =>
               /\ d.shops[d.products[q].shopId].present
               /\ d.shops[d.products[q].shopId].userId = d.products[q].userId
    /\ \A o \in OfferKeys :
           d.offers[o].present =>
               /\ d.products[d.offers[o].productId].present
               /\ d.shops[d.offers[o].shopId].present
               /\ d.products[d.offers[o].productId].userId
                      = d.shops[d.offers[o].shopId].userId

\* the shop s is stored in d and is not the user's
OthersShop(d, s, userId) == d.shops[s].present /\ d.shops[s].userId # userId

\* the product q is stored in d and is not the user's
OthersProduct(d, q, userId) == d.products[q].present /\ d.products[q].userId # userId

\* the answer is a rejection that left the database d as it was
Rejected(d, ans) == ans.status \in {400, 404} /\ ans.db = d

\* in the database d every POST /api/products and PUT /api/products/:id that
\* names a shop of another user, and every POST /api/offers that names a
\* product or a shop of another user, is rejected and stores nothing (a POST
\* is asked of a table that has a key left for the row)
StrangersRejected(d) ==
    \A u \in Users :
        /\ \A body \in ProductBodies :
               (body.shopId # None /\ OthersShop(d, body.shopId[1], u)) =>
                   /\ \A id \in ProductKeys : Rejected(d, putProduct(d, u, id, body))
                   /\ HasFreeKey(d.products) => Rejected(d, postProduct(d, u, body))
        /\ \A body \in OfferBodies :
               (/\ OthersProduct(d, body.productId, u) \/ OthersShop(d, body.shopId, u)
                /\ HasFreeKey(d.offers)) =>
                   Rejected(d, postOffer(d, u, body))

\* C30: in every state reachable through the API each product's shop is owned
\* by the product's owner and each offer's product and shop are owned by one
\* same user; creating or re-assigning a product to a shop of another user, or
\* creating an offer on a product or shop of another user, is rejected and
\* stores nothing.
C30_OwnersAgree == OwnersAgree(db) /\ StrangersRejected(db)

\* a user has tried to re-assign an own product to the shop of another user,
\* while both users have an offer
C30_Witness ==
    /\ last.method = "PUT" /\ last.kind = "product" /\ ~last.invalid
    /\ last.status = 404
    /\ db.products[last.id].present /\ db.products[last.id].userId = last.user
    /\ \A s \in ShopKeys : db.shops[s].present
    /\ \A o \in OfferKeys : db.offers[o].present

====
